---- MODULE Spec2Model ----
(***************************************************************************)
(* Subscription analytics of subaudit-app: the useSubscriptions hook       *)
(* (src/src/hooks/useSubscriptions.ts) and the parallel streak computation *)
(* of MotivationalStats.tsx; the score-based usage patterns (part_008),    *)
(* the reports page (part_007), the bulk-action bar (BulkActions.tsx) and  *)
(* the writes of the subscription service (part_012) to the table; the     *)
(* offline queue and its sync passes (part_011) and the runs of the        *)
(* notification scheduler (supabase/functions/notification-scheduler).     *)
(*                                                                         *)
(* Concurrency.  An async function is cut at the awaits of its requests:   *)
(* each action is the code between two of them, and the calls, passes and  *)
(* runs in flight interleave at these points only.                         *)
(*                                                                         *)
(* Numbers.  cost is decimal(10,2) in the database.  Every amount of the   *)
(* model is a fixed-point number counted in twelfths of a cent, so that    *)
(* the divisions by 12 of getMonthlyCost are exact; Cents(n) writes an     *)
(* amount of n cents.  Floating-point rounding is not modelled.            *)
(*                                                                         *)
(* Time.  An instant is a local calendar record [ym, d, t]: ym is          *)
(* year*12 + (month-1), d the day of the month, t the tick inside the day  *)
(* (TicksPerDay ticks per day).  A date-only column (next_renewal_date,    *)
(* last_used_date) is the record [ym, d]; parseISO turns it into the       *)
(* instant of local midnight.  Daylight-saving shifts are not modelled.    *)
(***************************************************************************)
EXTENDS Integers, Sequences, FiniteSets, TLC

VARIABLES allSubscriptions, now, analytics, motivationalStats, patterns,
          report, bulkActions, table,
          calls,
          onLine, offlineActions, syncs, executions,
          notification_logs, runs

\* the addSubscription calls in flight
callVars == <<calls>>

\* the offline queue of the browser and the backend's record of its actions
offlineVars == <<onLine, offlineActions, syncs, executions>>

\* the notification log table and the scheduler runs in flight
schedulerVars == <<notification_logs, runs>>

vars == <<allSubscriptions, now, analytics, motivationalStats, patterns,
          report, bulkActions, table, callVars, offlineVars, schedulerVars>>

(* ------------------------------ bounds --------------------------------- *)

MaxSubs == 3

TicksPerDay == 2

\* the rows of the subscriptions table
MaxRows == 2

\* the addSubscription calls in flight at one time
MaxCalls == 2

\* the offline actions ever stored, and the sync passes ever started
MaxActions == 2

MaxPasses == 3

\* the scheduler runs ever started
MaxRuns == 2

(* ------------------------------ numbers -------------------------------- *)

Cents(n) == 12 * n

Min(a, b) == IF a < b THEN a ELSE b

(* ------------------------------ calendar ------------------------------- *)

YM(y, m) == y * 12 + (m - 1)

Date(y, m, d) == [ym |-> YM(y, m), d |-> d]

At(y, m, d, t) == [ym |-> YM(y, m), d |-> d, t |-> t]

\* a null date column and a null timestamp column
NoDate == [ym |-> 0, d |-> 0]

NoTime == [ym |-> 0, d |-> 0, t |-> 0]

\* JavaScript truthiness of a nullable date or timestamp column
IsSet(date) == date.ym # 0

IsLeapYear(y) == (y % 4 = 0 /\ y % 100 # 0) \/ y % 400 = 0

DaysInMonth(ym) ==
    LET y == ym \div 12
        m == (ym % 12) + 1
    IN  IF m = 2 THEN (IF IsLeapYear(y) THEN 29 ELSE 28)
        ELSE IF m \in {4, 6, 9, 11} THEN 30 ELSE 31

\* the number of leap years from year 1 to year y
LeapYearsThrough(y) == (y \div 4) - (y \div 100) + (y \div 400)

\* days from 1 January to the first day of month m in a common year
DaysBeforeMonthOfYear(m) ==
    <<0, 31, 59, 90, 120, 151, 181, 212, 243, 273, 304, 334>>[m]

\* days from Monday 1 January 2024 to the first day of month ym
DaysBeforeMonth(ym) ==
    LET y == ym \div 12
        m == (ym % 12) + 1
    IN  365 * (y - 2024) + (LeapYearsThrough(y - 1) - LeapYearsThrough(2023))
        + DaysBeforeMonthOfYear(m)
        + (IF m > 2 /\ IsLeapYear(y) THEN 1 ELSE 0)

DayNumber(date) == DaysBeforeMonth(date.ym) + (date.d - 1)

\* Date.getTime(): ticks since the epoch
getTime(inst) == DayNumber(inst) * TicksPerDay + inst.t

\* parseISO of a date-only string: local midnight of that day
parseISO(date) == [ym |-> date.ym, d |-> date.d, t |-> 0]

\* date-fns subMonths: the day of the month is clamped to the target month
subMonths(inst, n) ==
    [ym |-> inst.ym - n, d |-> Min(inst.d, DaysInMonth(inst.ym - n)), t |-> inst.t]

\* date-fns isSameMonth: same year and same month
isSameMonth(a, b) == a.ym = b.ym

isSameYear(a, b) == (a.ym \div 12) = (b.ym \div 12)

\* date-fns differenceInDays: full days between the instants, truncated
\* toward zero
differenceInDays(left, right) ==
    LET diff == getTime(left) - getTime(right)
    IN  IF diff >= 0 THEN diff \div TicksPerDay ELSE 0 - ((0 - diff) \div TicksPerDay)

\* startOfWeek(subWeeks(now, 1), {weekStartsOn: 1}) as a tick count:
\* midnight of the Monday on or before the day seven days before inst
lastWeekStartOf(inst) ==
    LET day == DayNumber(inst) - 7
    IN  (day - (day % 7)) * TicksPerDay

\* addDays(lastWeekStart, 6)
lastWeekEndOf(inst) == lastWeekStartOf(inst) + 6 * TicksPerDay

(* ------------------------------ sequences ------------------------------ *)

\* Array.prototype.sort with comparator (a, b) => b.key - a.key over a
\* sequence of records that carry their sort key: a stable sort into
\* descending key order
RECURSIVE InsertDesc(_, _)
InsertDesc(sorted, x) ==
    IF Len(sorted) = 0 THEN <<x>>
    ELSE IF Head(sorted).key >= x.key
         THEN <<Head(sorted)>> \o InsertDesc(Tail(sorted), x)
         ELSE <<x>> \o sorted

RECURSIVE SortDesc(_)
SortDesc(seq) ==
    IF Len(seq) = 0 THEN <<>>
    ELSE InsertDesc(SortDesc(SubSeq(seq, 1, Len(seq) - 1)), seq[Len(seq)])

\* xs[0] || null: the empty sequence stands for null
FirstOrNull(seq) == IF Len(seq) = 0 THEN <<>> ELSE <<Head(seq)>>

(* ------------------- JavaScript objects used as maps ------------------- *)

\* The accumulators of the two reduce calls are plain objects ({}), so a key
\* that is not an own property is looked up on Object.prototype.  A value of
\* such a map is a number, or the string that + yields once an operand is
\* not a number, or an inherited function.
JsNum(n) == [type |-> "number", n |-> n]

JsString == [type |-> "string", n |-> 0]

JsFunction == [type |-> "function", n |-> 0]

JsUndefined == [type |-> "undefined", n |-> 0]

\* property names every plain object inherits from Object.prototype
ObjectPrototypeKeys == {"constructor", "toString", "valueOf", "hasOwnProperty"}

EmptyObject == [k \in {} |-> JsUndefined]

\* acc[key]
JsGet(acc, key) ==
    IF key \in DOMAIN acc THEN acc[key]
    ELSE IF key \in ObjectPrototypeKeys THEN JsFunction
    ELSE JsUndefined

\* acc[key] = v
JsSet(acc, key, v) ==
    [k \in (DOMAIN acc) \cup {key} |-> IF k = key THEN v ELSE acc[k]]

JsTruthy(v) ==
    \/ v.type = "number" /\ v.n # 0
    \/ v.type = "string"
    \/ v.type = "function"

\* v || 0
JsOrZero(v) == IF JsTruthy(v) THEN v ELSE JsNum(0)

\* a + b: a sum of two numbers, a string concatenation otherwise
JsPlus(a, b) ==
    IF a.type = "number" /\ b.type = "number" THEN JsNum(a.n + b.n) ELSE JsString

\* v > n: a string that is not numeric converts to NaN, so the test fails
JsGreater(v, n) == v.type = "number" /\ v.n > n

(* ----------------------------- analytics ------------------------------- *)

\* useSubscriptions.ts:60-73
initialAnalytics ==
    [ totalMonthlyCost |-> 0,
      lastMonthCost |-> 0,
      upcomingRenewals |-> <<>>,
      categoryBreakdown |-> EmptyObject,
      historicalData |-> <<>>,
      largestIncrease |-> <<>>,
      biggestSaving |-> <<>>,
      mindfulStreak |-> 0,
      subscriptionOfTheMonth |-> <<>>,
      lowValueSubs |-> <<>>,
      recommendations |-> <<>>,
      lastWeekCost |-> 0 ]

\* a weekly cost normalised as four weeks to the month
getMonthlyCostFourWeeks(sub) ==
    IF sub.billing_cycle = "monthly" THEN sub.cost
    ELSE IF sub.billing_cycle = "yearly" THEN sub.cost \div 12
    ELSE IF sub.billing_cycle = "weekly" THEN sub.cost * 4
    ELSE 0

getMonthlyCost(sub) ==
    IF sub.billing_cycle = "monthly" THEN sub.cost
    ELSE IF sub.billing_cycle = "yearly" THEN sub.cost \div 12
    ELSE IF sub.billing_cycle = "weekly" THEN (sub.cost * 52) \div 12
    ELSE 0

\* xs.reduce((total, sub) => total + getMonthlyCost(sub), 0)
RECURSIVE SumMonthlyCost(_)
SumMonthlyCost(subs) ==
    IF Len(subs) = 0 THEN 0
    ELSE getMonthlyCost(Head(subs)) + SumMonthlyCost(Tail(subs))

\* xs.reduce((sum, sub) => sum + sub.cost, 0)
RECURSIVE SumCost(_)
SumCost(subs) ==
    IF Len(subs) = 0 THEN 0 ELSE Head(subs).cost + SumCost(Tail(subs))

activeSubsOf(subs) == SelectSeq(subs, LAMBDA s : s.is_active)

\* the total summed over the complete list instead of activeSubs
totalMonthlyCostOfAll(subs) == SumMonthlyCost(subs)

totalMonthlyCostOf(subs) == SumMonthlyCost(activeSubsOf(subs))

\* lastMonthCost filtered from activeSubs instead of the complete list
lastMonthCostActiveOnly(subs, t) ==
    LET lastMonthDate == subMonths(t, 1)
    IN  SumMonthlyCost(SelectSeq(SelectSeq(subs, LAMBDA s : s.is_active), LAMBDA s :
            isSameMonth(s.created_at, lastMonthDate)
            /\ isSameYear(s.created_at, lastMonthDate)))

lastMonthCostOf(subs, t) ==
    LET lastMonthDate == subMonths(t, 1)
    IN  SumMonthlyCost(SelectSeq(subs, LAMBDA s :
            isSameMonth(s.created_at, lastMonthDate)
            /\ isSameYear(s.created_at, lastMonthDate)))

\* upcomingRenewals filtered from the complete list instead of activeSubs
upcomingRenewalsOfAll(subs, t) ==
    SelectSeq(subs, LAMBDA sub :
        LET daysUntil == differenceInDays(parseISO(sub.next_renewal_date), t)
        IN  daysUntil >= 0 /\ daysUntil <= 7)

\* upcomingRenewals sorted by renewal date, soonest first
upcomingRenewalsSorted(subs, t) ==
    LET due == SelectSeq(SelectSeq(subs, LAMBDA s : s.is_active), LAMBDA sub :
                   LET daysUntil == differenceInDays(parseISO(sub.next_renewal_date), t)
                   IN  daysUntil >= 0 /\ daysUntil <= 7)
        keyed == [ i \in 1..Len(due) |->
                     [ key |-> 0 - getTime(parseISO(due[i].next_renewal_date)),
                       sub |-> due[i] ] ]
        sorted == SortDesc(keyed)
    IN  [ i \in 1..Len(sorted) |-> sorted[i].sub ]

upcomingRenewalsOf(subs, t) ==
    SelectSeq(activeSubsOf(subs), LAMBDA sub :
        LET daysUntil == differenceInDays(parseISO(sub.next_renewal_date), t)
        IN  daysUntil >= 0 /\ daysUntil <= 7)

\* lastWeekCost over a window that runs on to the Monday of this week
lastWeekCostEightDays(subs, t) ==
    LET lastWeekStart == lastWeekStartOf(t)
        lastWeekEnd == lastWeekStartOf(t) + 7 * TicksPerDay
    IN  SumCost(SelectSeq(subs, LAMBDA s :
            LET renewalDate == getTime(parseISO(s.next_renewal_date))
            IN  renewalDate >= lastWeekStart /\ renewalDate <= lastWeekEnd))

lastWeekCostOf(subs, t) ==
    LET lastWeekStart == lastWeekStartOf(t)
        lastWeekEnd == lastWeekEndOf(t)
    IN  SumCost(SelectSeq(subs, LAMBDA s :
            LET renewalDate == getTime(parseISO(s.next_renewal_date))
            IN  renewalDate >= lastWeekStart /\ renewalDate <= lastWeekEnd))

\* the categoryBreakdown reduce from the k-th active subscription on, given
\* the accumulator acc
RECURSIVE categoryBreakdownAcc(_, _, _)
categoryBreakdownAcc(active, k, acc) ==
    IF k > Len(active) THEN acc
    ELSE categoryBreakdownAcc(active, k + 1,
             JsSet(acc, active[k].category,
                   JsPlus(JsOrZero(JsGet(acc, active[k].category)),
                          JsNum(getMonthlyCost(active[k])))))

categoryBreakdownOf(subs) == categoryBreakdownAcc(activeSubsOf(subs), 1, EmptyObject)

\* historicalData as a per-month delta: each entry sums the subscriptions
\* created in its month
historicalDataPerMonth(subs, t) ==
    [ i \in 1..6 |->
        LET month == subMonths(t, 5 - (i - 1))
        IN  [ name |-> (month.ym % 12) + 1,
              cost |-> SumMonthlyCost(SelectSeq(subs, LAMBDA s :
                           isSameMonth(s.created_at, month))) ] ]

historicalDataOf(subs, t) ==
    [ i \in 1..6 |->
        LET month == subMonths(t, 5 - (i - 1))
        IN  [ name |-> (month.ym % 12) + 1,
              cost |-> SumMonthlyCost(SelectSeq(subs, LAMBDA s :
                           getTime(s.created_at) <= getTime(month))) ] ]

largestIncreaseOf(subs) ==
    LET withHistory == SelectSeq(activeSubsOf(subs),
                                 LAMBDA s : Len(s.price_history) > 0)
        mapped == [ i \in 1..Len(withHistory) |->
                      [ key |-> withHistory[i].cost - withHistory[i].price_history[1].cost,
                        sub |-> withHistory[i] ] ]
        first == FirstOrNull(SortDesc(mapped))
    IN  [ i \in 1..Len(first) |-> [ sub |-> first[i].sub, increase |-> first[i].key ] ]

\* biggestSaving with the candidates ordered by their raw cost
biggestSavingByRawCost(subs) ==
    LET cancelled == SelectSeq(subs, LAMBDA s :
                         ~s.is_active /\ IsSet(s.cancellation_date))
        keyed == [ i \in 1..Len(cancelled) |->
                     [ key |-> cancelled[i].cost, sub |-> cancelled[i] ] ]
        first == FirstOrNull(SortDesc(keyed))
    IN  [ i \in 1..Len(first) |-> first[i].sub ]

biggestSavingOf(subs) ==
    LET cancelled == SelectSeq(subs, LAMBDA s :
                         ~s.is_active /\ IsSet(s.cancellation_date))
        keyed == [ i \in 1..Len(cancelled) |->
                     [ key |-> getMonthlyCost(cancelled[i]), sub |-> cancelled[i] ] ]
        first == FirstOrNull(SortDesc(keyed))
    IN  [ i \in 1..Len(first) |-> first[i].sub ]

\* the loop without its break: every month of the last twelve that has a
\* creation is counted
RECURSIVE mindfulStreakNoBreak(_, _, _)
mindfulStreakNoBreak(subs, t, i) ==
    IF i >= 12 THEN 0
    ELSE LET monthToCheck == subMonths(t, i)
         IN  (IF \E k \in 1..Len(subs) : isSameMonth(subs[k].created_at, monthToCheck)
              THEN 1 ELSE 0)
             + mindfulStreakNoBreak(subs, t, i + 1)

\* the loop with its test negated: the months without a creation are the
\* ones counted
RECURSIVE mindfulStreakOfQuietMonths(_, _, _)
mindfulStreakOfQuietMonths(subs, t, i) ==
    IF i >= 12 THEN 0
    ELSE LET monthToCheck == subMonths(t, i)
         IN  IF ~(\E k \in 1..Len(subs) : isSameMonth(subs[k].created_at, monthToCheck))
             THEN 1 + mindfulStreakOfQuietMonths(subs, t, i + 1)
             ELSE 0

\* the for loop of lines 192-197 from iteration i on
RECURSIVE mindfulStreakFrom(_, _, _)
mindfulStreakFrom(subs, t, i) ==
    IF i >= 12 THEN 0
    ELSE LET monthToCheck == subMonths(t, i)
         IN  IF \E k \in 1..Len(subs) : isSameMonth(subs[k].created_at, monthToCheck)
             THEN 1 + mindfulStreakFrom(subs, t, i + 1)
             ELSE 0

mindfulStreakOf(subs, t) == mindfulStreakFrom(subs, t, 0)

\* MotivationalStats.tsx: new Date(year, month - i, 1), local midnight of
\* the first day of month ym
firstOfMonth(ym) == [ym |-> ym, d |-> 1, t |-> 0]

\* MotivationalStats.tsx:27-32 from iteration i on
RECURSIVE statsStreakFrom(_, _, _)
statsStreakFrom(subs, t, i) ==
    IF i >= 12 THEN 0
    ELSE LET monthToCheck == firstOfMonth(t.ym - i)
             nextMonth == firstOfMonth(t.ym - i + 1)
             hasActivity == \E k \in 1..Len(subs) :
                 /\ getTime(subs[k].created_at) >= getTime(monthToCheck)
                 /\ getTime(subs[k].created_at) < getTime(nextMonth)
         IN  IF hasActivity THEN 1 + statsStreakFrom(subs, t, i + 1) ELSE 0

statsMindfulStreak(subs, t) == statsStreakFrom(subs, t, 0)

\* MotivationalStats.tsx:11-18
monthlySavingsOf(subs) == SumMonthlyCost(SelectSeq(subs, LAMBDA s : ~s.is_active))

\* the useSubscriptionAnalytics memo of MotivationalStats.tsx (lines 9-47),
\* as far as the streak and the savings go
StatsAnalytics(subs, t) ==
    [ monthlySavings |-> monthlySavingsOf(subs),
      mindfulStreak |-> statsMindfulStreak(subs, t) ]

\* a null value_rating is 0: the code only tests it for truthiness
subscriptionOfTheMonthOf(subs) ==
    LET rated == SelectSeq(activeSubsOf(subs), LAMBDA s : s.value_rating # 0)
        keyed == [ i \in 1..Len(rated) |->
                     [ key |-> rated[i].value_rating, sub |-> rated[i] ] ]
        first == FirstOrNull(SortDesc(keyed))
    IN  [ i \in 1..Len(first) |-> first[i].sub ]

lowValueSubsOf(subs) ==
    SelectSeq(activeSubsOf(subs), LAMBDA s : s.value_rating # 0 /\ s.value_rating <= 2)

\* the categoryCounts reduce from the k-th active subscription on, given the
\* accumulator acc
RECURSIVE categoryCountsAcc(_, _, _)
categoryCountsAcc(active, k, acc) ==
    IF k > Len(active) THEN acc
    ELSE categoryCountsAcc(active, k + 1,
             JsSet(acc, active[k].category,
                   JsPlus(JsOrZero(JsGet(acc, active[k].category)), JsNum(1))))

Insight(sub, suffix, type, savings) ==
    [ id |-> <<sub.id, suffix>>, subscription |-> sub, type |-> type,
      potential_savings |-> savings ]

\* the low_value rule with the rating compared to 3
lowValueInsightUpToThree(sub) ==
    IF sub.value_rating # 0 /\ sub.value_rating <= 3
    THEN <<Insight(sub, "low", "low_value", getMonthlyCost(sub))>> ELSE <<>>

\* the low_value rule (lines 209-211): what it pushes for sub
lowValueInsight(sub) ==
    IF sub.value_rating # 0 /\ sub.value_rating <= 2
    THEN <<Insight(sub, "low", "low_value", getMonthlyCost(sub))>> ELSE <<>>

\* the underutilized rule on the elapsed time: more than 30 days' worth of
\* time since the last use, a fraction of a day included
underutilizedInsightElapsed(sub, t) ==
    IF IsSet(sub.last_used_date)
       /\ getTime(t) - getTime(parseISO(sub.last_used_date)) > 30 * TicksPerDay
    THEN <<Insight(sub, "unused", "underutilized", getMonthlyCost(sub))>> ELSE <<>>

\* the underutilized rule (lines 213-215): what it pushes for sub
underutilizedInsight(sub, t) ==
    IF IsSet(sub.last_used_date)
       /\ differenceInDays(t, parseISO(sub.last_used_date)) > 30
    THEN <<Insight(sub, "unused", "underutilized", getMonthlyCost(sub))>> ELSE <<>>

\* the insights one iteration of activeSubs.forEach pushes, given the
\* recommendations pushed so far
insightsFor(sub, sofar, categoryCounts, t) ==
    LET low == lowValueInsight(sub)
        unused == underutilizedInsight(sub, t)
        price == IF Len(sub.price_history) > 0
                    /\ sub.cost > sub.price_history[1].cost
                 THEN <<Insight(sub, "price", "price_increase", 0)>> ELSE <<>>
        before == sofar \o low \o unused \o price
        dupe == IF JsGreater(JsGet(categoryCounts, sub.category), 1)
                   /\ ~ \E k \in 1..Len(before) :
                          /\ before[k].type = "duplicate_category"
                          /\ before[k].subscription.category = sub.category
                THEN <<Insight(sub, "dupe", "duplicate_category", 0)>> ELSE <<>>
    IN  low \o unused \o price \o dupe

\* activeSubs.forEach from the k-th active subscription on, given the
\* recommendations pushed so far
RECURSIVE recommendationsAcc(_, _, _, _, _)
recommendationsAcc(active, categoryCounts, t, k, sofar) ==
    IF k > Len(active) THEN sofar
    ELSE recommendationsAcc(active, categoryCounts, t, k + 1,
             sofar \o insightsFor(active[k], sofar, categoryCounts, t))

recommendationsOf(subs, t) ==
    LET active == activeSubsOf(subs)
        categoryCounts == categoryCountsAcc(active, 1, EmptyObject)
    IN  recommendationsAcc(active, categoryCounts, t, 1, <<>>)

\* the body of the analytics useMemo after its early return (lines
\* 148-225), evaluated with new Date() = t
computedAnalytics(subs, t) ==
    [ totalMonthlyCost |-> totalMonthlyCostOf(subs),
      lastMonthCost |-> lastMonthCostOf(subs, t),
      upcomingRenewals |-> upcomingRenewalsOf(subs, t),
      categoryBreakdown |-> categoryBreakdownOf(subs),
      historicalData |-> historicalDataOf(subs, t),
      largestIncrease |-> largestIncreaseOf(subs),
      biggestSaving |-> biggestSavingOf(subs),
      mindfulStreak |-> mindfulStreakOf(subs, t),
      subscriptionOfTheMonth |-> subscriptionOfTheMonthOf(subs),
      lowValueSubs |-> lowValueSubsOf(subs),
      recommendations |-> recommendationsOf(subs, t),
      lastWeekCost |-> lastWeekCostOf(subs, t) ]

\* the memo without its early return for an empty collection
AnalyticsWithoutEarlyReturn(subs, t) == computedAnalytics(subs, t)

\* the analytics useMemo (lines 145-226), evaluated with new Date() = t
Analytics(subs, t) ==
    IF Len(subs) = 0 THEN initialAnalytics
    ELSE computedAnalytics(subs, t)

(* --------------------------- usage patterns ---------------------------- *)

\* cost_per_use is a fixed-point number counted in 1/18000 of a cent, so
\* that the factor 4.33 and the divisions by 12, 30, 4 and 0.1 are exact on
\* whole cents
PerUseUnitsPerCent == 18000

Dollars(n) == n * 100 * PerUseUnitsPerCent

JsInfinity == [type |-> "Infinity", n |-> 0]

\* v < n and v > n for a number or Infinity
JsBelow(v, n) == v.type = "number" /\ v.n < n

JsAbove(v, n) == v.type = "Infinity" \/ (v.type = "number" /\ v.n > n)

\* confidence is a fixed-point number counted in 1/150, so that score / 50,
\* |score| / 30, 0.9 and 0.7 are exact
ConfidenceUnits == 150

Abs(n) == IF n < 0 THEN 0 - n ELSE n

\* calculateUsageFrequency (part_008:369-378)
calculateUsageFrequency(subscription, t) ==
    IF ~IsSet(subscription.last_used_date) THEN "never"
    ELSE LET daysSinceLastUse ==
                 differenceInDays(t, parseISO(subscription.last_used_date))
         IN  IF daysSinceLastUse <= 1 THEN "daily"
             ELSE IF daysSinceLastUse <= 7 THEN "weekly"
             ELSE IF daysSinceLastUse <= 30 THEN "monthly"
             ELSE IF daysSinceLastUse <= 90 THEN "rarely"
             ELSE "never"

\* analyzeValueTrend (part_008:383-400)
analyzeValueTrend(subscription, t) ==
    IF subscription.value_rating = 0 THEN "stable"
    ELSE LET rating == subscription.value_rating
             daysSinceCreated == differenceInDays(t, subscription.created_at)
         IN  IF rating >= 4 /\ daysSinceCreated <= 30 THEN "increasing"
             ELSE IF rating <= 2 THEN "decreasing"
             ELSE "stable"

\* calculateCostPerUse (part_008:405-424); monthlyUses is counted in tenths
calculateCostPerUse(subscription, t) ==
    IF ~IsSet(subscription.last_used_date) THEN JsInfinity
    ELSE LET daysSinceLastUse ==
                 differenceInDays(t, parseISO(subscription.last_used_date))
             tenthsOfUses == IF daysSinceLastUse <= 1 THEN 300
                             ELSE IF daysSinceLastUse <= 7 THEN 40
                             ELSE IF daysSinceLastUse <= 30 THEN 10
                             ELSE 1
             cents == subscription.cost \div 12
             \* monthlyCost / monthlyUses for a cost of one cent
             perCent ==
                 IF subscription.billing_cycle = "weekly"
                 THEN (PerUseUnitsPerCent * 433 * 10) \div (100 * tenthsOfUses)
                 ELSE IF subscription.billing_cycle = "yearly"
                 THEN (PerUseUnitsPerCent * 10) \div (12 * tenthsOfUses)
                 ELSE (PerUseUnitsPerCent * 10) \div tenthsOfUses
         IN  JsNum(cents * perCent)

\* the score after the usage frequency switch (part_008:439-460)
usageScore(usageFrequency) ==
    CASE usageFrequency = "daily" -> 40
      [] usageFrequency = "weekly" -> 30
      [] usageFrequency = "monthly" -> 15
      [] usageFrequency = "rarely" -> 0 - 10
      [] usageFrequency = "never" -> 0 - 30
      [] OTHER -> 0

\* part_008:463-472
ratingScore(subscription) ==
    IF subscription.value_rating # 0 THEN (subscription.value_rating - 3) * 10 ELSE 0

\* part_008:475-484
costPerUseScore(costPerUse) ==
    IF JsBelow(costPerUse, Dollars(1)) THEN 20
    ELSE IF JsBelow(costPerUse, Dollars(5)) THEN 10
    ELSE IF JsAbove(costPerUse, Dollars(20)) THEN 0 - 20
    ELSE 0

\* part_008:487-496
trendScore(valueTrend) ==
    CASE valueTrend = "increasing" -> 15
      [] valueTrend = "decreasing" -> 0 - 15
      [] OTHER -> 0

\* the final classification with keep given above 40 only
classifyAboveForty(score) ==
    IF score > 40
    THEN [recommendation |-> "keep", confidence |-> Min((9 * ConfidenceUnits) \div 10,
                                   (score * ConfidenceUnits) \div 50)]
    ELSE IF score >= 10
    THEN [recommendation |-> "review", confidence |-> (7 * ConfidenceUnits) \div 10]
    ELSE [recommendation |-> "cancel", confidence |-> Min((9 * ConfidenceUnits) \div 10,
                                     (Abs(score) * ConfidenceUnits) \div 30)]

\* the final classification (part_008:498-514)
classify(score) ==
    IF score >= 40
    THEN [recommendation |-> "keep", confidence |-> Min((9 * ConfidenceUnits) \div 10,
                                   (score * ConfidenceUnits) \div 50)]
    ELSE IF score >= 10
    THEN [recommendation |-> "review", confidence |-> (7 * ConfidenceUnits) \div 10]
    ELSE [recommendation |-> "cancel", confidence |-> Min((9 * ConfidenceUnits) \div 10,
                                     (Abs(score) * ConfidenceUnits) \div 30)]

\* generateRecommendation (part_008:429-517); the reasons are not modelled
generateRecommendation(subscription, usageFrequency, valueTrend, costPerUse) ==
    LET afterUsage == 0 + usageScore(usageFrequency)
        afterRating == afterUsage + ratingScore(subscription)
        afterCost == afterRating + costPerUseScore(costPerUse)
        score == afterCost + trendScore(valueTrend)
    IN  classify(score)

\* analyzeSubscriptionPattern (part_008:337-364), with new Date() = t
analyzeSubscriptionPattern(subscription, t) ==
    LET usageFrequency == calculateUsageFrequency(subscription, t)
        valueTrend == analyzeValueTrend(subscription, t)
        costPerUse == calculateCostPerUse(subscription, t)
        rec == generateRecommendation(subscription, usageFrequency, valueTrend, costPerUse)
    IN  [ subscription_id |-> subscription.id,
          usage_frequency |-> usageFrequency,
          value_trend |-> valueTrend,
          cost_per_use |-> costPerUse,
          recommendation |-> rec.recommendation,
          confidence |-> rec.confidence ]

(* ------------------------ reports and bulk actions --------------------- *)

\* getCostForTimeframe (part_007:181-201); WEEKS_PER_MONTH is 52 / 12, and
\* the weekly figure is truncated to the unit of the amounts
getCostForTimeframe(sub, tf) ==
    LET monthlyCost ==
            IF sub.billing_cycle = "yearly" THEN sub.cost \div 12
            ELSE IF sub.billing_cycle = "weekly" THEN (sub.cost * 52) \div 12
            ELSE sub.cost
    IN  CASE tf = "week" -> (monthlyCost * 12) \div 52
          [] tf = "annual" -> monthlyCost * 12
          [] OTHER -> monthlyCost

\* safeTimeframe (part_007:174-178)
safeTimeframeOf(timeframe) ==
    IF timeframe \in {"week", "month", "annual"} THEN timeframe ELSE "month"

RECURSIVE SumCalculatedCost(_)
SumCalculatedCost(reportData) ==
    IF Len(reportData) = 0 THEN 0
    ELSE Head(reportData).calculatedCost + SumCalculatedCost(Tail(reportData))

\* the report memo of ReportsPage (part_007:204-216)
reportOf(subs, timeframe) ==
    LET safeTimeframe == safeTimeframeOf(timeframe)
        activeSubs == activeSubsOf(subs)
        keyed == [ i \in 1..Len(activeSubs) |->
                     [ key |-> getCostForTimeframe(activeSubs[i], safeTimeframe),
                       sub |-> activeSubs[i] ] ]
        sorted == SortDesc(keyed)
        reportData == [ i \in 1..Len(sorted) |->
                          [ sub |-> sorted[i].sub, calculatedCost |-> sorted[i].key ] ]
    IN  [ timeframe |-> safeTimeframe,
          reportData |-> reportData,
          totalCost |-> SumCalculatedCost(reportData) ]

\* the totalMonthlyCost memo of BulkActions.tsx (lines 21-28) over
\* selectedSubscriptions (UpcomingRenewalsAlert.tsx:168)
bulkActionsOf(subs, selectedIds) ==
    LET selectedSubscriptions == SelectSeq(subs, LAMBDA s : s.id \in selectedIds)
    IN  [ selectedIds |-> selectedIds,
          totalMonthlyCost |-> SumMonthlyCost(selectedSubscriptions) ]

(* ------------------------- subscription service ------------------------ *)

\* A text value is a sequence of one-character strings.
Lower(c) == CASE c = "H" -> "h" [] c = "I" -> "i" [] c = "N" -> "n" [] OTHER -> c

toLowerCase(text) == [ i \in 1..Len(text) |-> Lower(text[i]) ]

\* String.prototype.trim
RECURSIVE trimStart(_)
trimStart(text) ==
    IF Len(text) > 0 /\ Head(text) = " " THEN trimStart(Tail(text)) ELSE text

RECURSIVE trimEnd(_)
trimEnd(text) ==
    IF Len(text) > 0 /\ text[Len(text)] = " "
    THEN trimEnd(SubSeq(text, 1, Len(text) - 1)) ELSE text

trim(text) == trimEnd(trimStart(text))

\* sanitizeInput (part_012:12-14): trim, then drop every < and >
sanitizeInput(input) == SelectSeq(trim(input), LAMBDA c : c \notin {"<", ">"})

\* the columns of an object: a record whose domain holds the keys present
Has(obj, key) == key \in DOMAIN obj

\* {...a, ...b}: the keys of both, b winning
Spread(a, b) == b @@ a

\* the row the database stores for an inserted object: absent columns take
\* their defaults (part_017:39-52), created_at and updated_at are now()
insertedRow(obj, id, t) ==
    Spread([ id |-> id, is_active |-> TRUE, last_used_date |-> NoDate,
             value_rating |-> 0, cancellation_date |-> NoTime,
             price_history |-> <<>>, created_at |-> t, updated_at |-> t ],
           obj)

\* a date column keeps the calendar day of a timestamp written to it
toDateColumn(v) == [ym |-> v.ym, d |-> v.d]

\* the CHECK constraints of the table (part_017:43-48)
checkConstraints(row) ==
    /\ row.cost >= 0
    /\ row.billing_cycle \in {"weekly", "monthly", "yearly"}
    /\ row.value_rating \in 0..5

\* checkDuplicateSubscription (part_012:17-35): an active row of the user
\* whose name matches name.trim() ignoring case (the names have no % or _)
checkDuplicateSubscription(name, userId) ==
    \E k \in 1..Len(table) :
        /\ table[k].user_id = userId
        /\ table[k].is_active
        /\ toLowerCase(table[k].name) = toLowerCase(trim(name))

\* addSubscription of the service (part_012:81-125), called by the
\* authenticated user (or "none") at time t; a throw changes nothing
addSubscription(subscriptionData, user, t) ==
    /\ user # "none"
    /\ getTime(t) >= getTime(now)
    /\ LET sanitizedName == sanitizeInput(subscriptionData.name)
       IN  /\ Len(sanitizedName) >= 2
           /\ subscriptionData.cost > 0
           /\ ~checkDuplicateSubscription(sanitizedName, user)
           /\ LET row == insertedRow(
                              Spread(subscriptionData,
                                     [ name |-> sanitizedName,
                                       category |-> sanitizeInput(subscriptionData.category),
                                       user_id |-> user,
                                       is_active |-> TRUE ]),
                              Len(table) + 1, t)
              IN  /\ checkConstraints(row)
                  /\ table' = Append(table, row)
    /\ now' = t
    /\ UNCHANGED <<allSubscriptions, analytics, motivationalStats, patterns,
                   report, bulkActions,
                   callVars, offlineVars, schedulerVars>>

\* PLAN_LIMITS['Free Starter'], the plan of a user without a profile plan
PlanLimitFreeStarter == 10

\* addSubscription of useSubscriptions.ts (lines 18-57): the plan limit
\* check, then the insert
useSubscriptionsAddSubscription(subscriptionData, user, t) ==
    /\ user # "none"
    /\ getTime(t) >= getTime(now)
    /\ LET currentCount == Cardinality({ k \in 1..Len(table) :
                                table[k].user_id = user /\ table[k].is_active })
       IN  currentCount < PlanLimitFreeStarter
    /\ LET row == insertedRow(Spread(subscriptionData, [user_id |-> user]),
                              Len(table) + 1, t)
       IN  /\ checkConstraints(row)
           /\ table' = Append(table, row)
    /\ now' = t
    /\ UNCHANGED <<allSubscriptions, analytics, motivationalStats, patterns,
                   report, bulkActions,
                   callVars, offlineVars, schedulerVars>>

\* the row after .update(updates): a timestamp written to last_used_date
\* is cast to its day
updatedRow(row, updates) ==
    LET written == Spread(row, updates)
    IN  [written EXCEPT !.last_used_date = toDateColumn(@)]

\* updateSubscription (part_012:130-143) at time t: the row with this id
\* takes the updates and updated_at; no such row, or a row the constraints
\* reject, is an error
updateSubscription(id, updates, t) ==
    /\ getTime(t) >= getTime(now)
    /\ id \in 1..Len(table)
    /\ LET row == updatedRow(table[id], Spread(updates, [updated_at |-> t]))
       IN  /\ checkConstraints(row)
           /\ table' = [table EXCEPT ![id] = row]
    /\ now' = t
    /\ UNCHANGED <<allSubscriptions, analytics, motivationalStats, patterns,
                   report, bulkActions,
                   callVars, offlineVars, schedulerVars>>

\* the updates updateSubscriptionRating sends (part_012:165-168):
\* lastUsedDate ?? new Date().toISOString(); an absent lastUsedDate is NoDate
ratingUpdates(rating, lastUsedDate, t) ==
    [ value_rating |-> rating,
      last_used_date |-> IF IsSet(lastUsedDate) THEN lastUsedDate ELSE t ]

\* updateSubscriptionRating (part_012:159-169)
updateSubscriptionRating(id, rating, lastUsedDate, t) ==
    /\ ~(rating < 1 \/ rating > 5)
    /\ updateSubscription(id, ratingUpdates(rating, lastUsedDate, t), t)

\* cancelSubscription (part_012:148-153): a soft delete stamped with the
\* time of the call
cancelSubscription(id, t) ==
    updateSubscription(id, [ is_active |-> FALSE, cancellation_date |-> t ], t)

\* bulkUpdateSubscriptions (part_012:174-188): one UPDATE ... WHERE id IN
\* (ids); an empty selection throws, a row the constraints reject fails the
\* whole statement, an id without a row matches nothing
bulkUpdateSubscriptions(ids, updates, t) ==
    /\ ids # {}
    /\ getTime(t) >= getTime(now)
    /\ LET rows == [ k \in 1..Len(table) |->
                       IF k \in ids
                       THEN updatedRow(table[k], Spread(updates, [updated_at |-> t]))
                       ELSE table[k] ]
       IN  /\ \A k \in 1..Len(table) : checkConstraints(rows[k])
           /\ table' = rows
    /\ now' = t
    /\ UNCHANGED <<allSubscriptions, analytics, motivationalStats, patterns,
                   report, bulkActions,
                   callVars, offlineVars, schedulerVars>>

\* the updates of a bulk action (BulkActions.tsx:44-47); favorite sends {}
bulkUpdatesOf(action, t) ==
    CASE action = "cancel" -> [ is_active |-> FALSE, cancellation_date |-> t ]
      [] action = "pause"  -> [ is_active |-> FALSE ]
      [] action = "resume" -> [ is_active |-> TRUE ]
      [] OTHER             -> << >>

\* executeAction of the bulk-action bar (BulkActions.tsx:40-58)
executeAction(action, selectedIds, t) ==
    bulkUpdateSubscriptions(selectedIds, bulkUpdatesOf(action, t), t)

\* handleDelete of a card (SubscriptionCard.tsx:62-71)
handleDelete(id, t) == cancelSubscription(id, t)

\* handleToggleActive of a card (SubscriptionCard.tsx:73-82): pause an
\* active subscription, resume an inactive one.  The card shows the row of
\* the last fetch, and onUpdate fetches again after every operation.
handleToggleActive(id, t) ==
    /\ id \in 1..Len(table)
    /\ updateSubscription(id, [ is_active |-> ~table[id].is_active ], t)

\* date-fns addMonths: the day is clamped to the length of the new month
addMonths(date, amount) ==
    LET ym == date.ym + amount
    IN  [ym |-> ym, d |-> Min(date.d, DaysInMonth(ym))]

addYears(date, amount) == addMonths(date, amount * 12)

RECURSIVE addDays(_, _)
addDays(date, amount) ==
    IF date.d + amount <= DaysInMonth(date.ym)
    THEN [ym |-> date.ym, d |-> date.d + amount]
    ELSE addDays([ym |-> date.ym + 1, d |-> 1],
                 amount - (DaysInMonth(date.ym) - date.d + 1))

addWeeks(date, amount) == addDays(date, amount * 7)

\* the next renewal date renewSubscription computes (part_012:194-203);
\* next_renewal_date is a date column, the time of day plays no part
nextRenewalOf(subscription) ==
    CASE subscription.billing_cycle = "monthly" ->
             addMonths(subscription.next_renewal_date, 1)
      [] subscription.billing_cycle = "yearly" ->
             addYears(subscription.next_renewal_date, 1)
      [] subscription.billing_cycle = "weekly" ->
             addWeeks(subscription.next_renewal_date, 7)

\* renewSubscription (part_012:190-217) of the subscription object a card
\* holds; any other billing cycle throws before the write
renewSubscription(subscription, t) ==
    /\ subscription.billing_cycle \in {"monthly", "yearly", "weekly"}
    /\ getTime(t) >= getTime(now)
    /\ subscription.id \in 1..Len(table)
    /\ LET row == updatedRow(table[subscription.id],
                             [ next_renewal_date |-> nextRenewalOf(subscription),
                               updated_at |-> t ])
       IN  /\ checkConstraints(row)
           /\ table' = [table EXCEPT ![subscription.id] = row]
    /\ now' = t
    /\ UNCHANGED <<allSubscriptions, analytics, motivationalStats, patterns,
                   report, bulkActions,
                   callVars, offlineVars, schedulerVars>>

\* addSubscription (part_012:81-125) up to its second await: the user, the
\* validation and the answer of checkDuplicateSubscription, which is false
\* when the query fails (part_012:31-34).  A call that passed waits in calls
\* for its insert; a throw changes nothing.
addSubscriptionCheck(call, subscriptionData, user, queryError) ==
    /\ user # "none"
    /\ call \notin { c.call : c \in calls }
    /\ LET sanitizedName == sanitizeInput(subscriptionData.name)
           isDuplicate == IF queryError THEN FALSE
                          ELSE checkDuplicateSubscription(sanitizedName, user)
       IN  /\ Len(sanitizedName) >= 2
           /\ subscriptionData.cost > 0
           /\ ~isDuplicate
           /\ calls' = calls \cup
                  { [ call |-> call,
                      row |-> Spread(subscriptionData,
                                     [ name |-> sanitizedName,
                                       category |-> sanitizeInput(subscriptionData.category),
                                       user_id |-> user,
                                       is_active |-> TRUE ]) ] }
    /\ UNCHANGED <<allSubscriptions, now, analytics, motivationalStats, patterns,
                   report, bulkActions, table, offlineVars, schedulerVars>>

\* the insert of a call that passed the check (part_012:107-119), reaching
\* the table at time t
addSubscriptionInsert(call, t) ==
    /\ getTime(t) >= getTime(now)
    /\ \E c \in calls :
          /\ c.call = call
          /\ LET row == insertedRow(c.row, Len(table) + 1, t)
             IN  /\ checkConstraints(row)
                 /\ table' = Append(table, row)
          /\ calls' = calls \ {c}
    /\ now' = t
    /\ UNCHANGED <<allSubscriptions, analytics, motivationalStats, patterns,
                   report, bulkActions, offlineVars, schedulerVars>>

(* ------------------------ notification scheduler ----------------------- *)

\* the subscriptions query of a run at time t (index.ts:43-58): the active
\* rows that renew in 5 days or today
subscriptionsToNotify(t) ==
    LET today == toDateColumn(t)
        targetDate == addDays(today, 5)
    IN  SelectSeq(table, LAMBDA sub :
            sub.is_active /\ sub.next_renewal_date \in {targetDate, today})

\* the renewal reminders of a subscription sent in the 7 days before t
\* (index.ts:78-83)
existingNotificationsOf(subscriptionId, t) ==
    SelectSeq(notification_logs, LAMBDA log :
        /\ log.subscription_id = subscriptionId
        /\ log.notification_type = "renewal_reminder"
        /\ getTime(log.sent_at) >= getTime(t) - 7 * TicksPerDay)

\* a run after the subscription at position i: the next one, or the end
nextSubscriptionOf(run) ==
    [run EXCEPT !.i = @ + 1,
                !.pc = IF run.i < Len(run.subscriptions) THEN "check" ELSE "done"]

\* a run starts at time t (index.ts:30-73): without a subscription to
\* notify it answers at once, otherwise it enters its loop
schedulerStart(t) ==
    /\ getTime(t) >= getTime(now)
    /\ LET subscriptions == subscriptionsToNotify(t)
       IN  runs' = IF Len(subscriptions) = 0 THEN runs
                   ELSE Append(runs, [ subscriptions |-> subscriptions, i |-> 1,
                                       pc |-> "check", sent_at |-> NoTime ])
    /\ now' = t
    /\ UNCHANGED <<allSubscriptions, analytics, motivationalStats, patterns,
                   report, bulkActions, table, callVars, offlineVars,
                   notification_logs>>

\* the answer of the existing-notifications query of run r at time t
\* (index.ts:78-88); its error is not read, so a failed query (data null)
\* counts as no notification sent.  With none the run builds the log entry,
\* sent_at being the time of this step (index.ts:93-98).
schedulerCheck(r, t, queryError) ==
    /\ getTime(t) >= getTime(now)
    /\ r \in 1..Len(runs)
    /\ runs[r].pc = "check"
    /\ LET subscription == runs[r].subscriptions[runs[r].i]
           alreadySent == /\ ~queryError
                          /\ Len(existingNotificationsOf(subscription.id, t)) > 0
       IN  runs' = [runs EXCEPT ![r] =
                       IF alreadySent THEN nextSubscriptionOf(@)
                       ELSE [@ EXCEPT !.pc = "insert", !.sent_at = t]]
    /\ now' = t
    /\ UNCHANGED <<allSubscriptions, analytics, motivationalStats, patterns,
                   report, bulkActions, table, callVars, offlineVars,
                   notification_logs>>

\* the insert of the log entry of run r reaches the table at time t
\* (index.ts:91-105); a logError is logged and the loop goes on
schedulerInsert(r, t, logError) ==
    /\ getTime(t) >= getTime(now)
    /\ r \in 1..Len(runs)
    /\ runs[r].pc = "insert"
    /\ LET subscription == runs[r].subscriptions[runs[r].i]
       IN  notification_logs' =
               IF logError THEN notification_logs
               ELSE Append(notification_logs,
                           [ subscription_id |-> subscription.id,
                             user_id |-> subscription.user_id,
                             notification_type |-> "renewal_reminder",
                             sent_at |-> runs[r].sent_at ])
    /\ runs' = [runs EXCEPT ![r] = nextSubscriptionOf(@)]
    /\ now' = t
    /\ UNCHANGED <<allSubscriptions, analytics, motivationalStats, patterns,
                   report, bulkActions, table, callVars, offlineVars>>

(* ----------------------------- offline queue --------------------------- *)

\* data: any may be null
NullData == << >>

\* storeOfflineAction (part_011:22-34): the action gets a fresh id and is
\* pushed on the stored list (its timestamp is not modelled); executions
\* gets the entry where the backend's answers to this action are recorded
storedWith(actions, action) ==
    Append(actions, Spread(action, [id |-> Len(executions) + 1]))

storeOfflineAction(action) ==
    /\ offlineActions' = storedWith(offlineActions, action)
    /\ executions' = Append(executions, <<>>)
    /\ UNCHANGED <<allSubscriptions, now, analytics, motivationalStats, patterns,
                   report, bulkActions, table, callVars, onLine, syncs,
                   schedulerVars>>

\* executeOfflineAction (part_011:94-113) throws before any request when
\* data.id is read from a null data, or when the type is none of the three;
\* the supabase calls themselves resolve, with an error or without
throwsBeforeRequest(action) ==
    CASE action.type = "create" -> FALSE
      [] action.type \in {"update", "delete"} -> action.data = NullData
      [] OTHER -> TRUE

\* the loop of syncOfflineActions (part_011:71-79) from position i up to its
\* next request: an action that throws is pushed on failedActions at once
RECURSIVE syncLoop(_, _, _)
syncLoop(actions, i, failedActions) ==
    IF i > Len(actions)
    THEN [ i |-> i, failedActions |-> failedActions, pc |-> "done" ]
    ELSE IF throwsBeforeRequest(actions[i])
    THEN syncLoop(actions, i + 1, Append(failedActions, actions[i]))
    ELSE [ i |-> i, failedActions |-> failedActions, pc |-> "await" ]

\* the stored list after a pass that ended (part_011:82-88): failedActions,
\* or nothing (removeItem) when it is empty; a pass still waiting leaves it
storedAfter(pass, stored) ==
    IF pass.pc = "done" THEN pass.failedActions ELSE stored

\* a pass that read the stored list and ran its loop up to the first await
\* of a request (part_011:61-73)
passStarted ==
    LET reached == syncLoop(offlineActions, 1, <<>>)
    IN  [ actions |-> offlineActions, i |-> reached.i,
          failedActions |-> reached.failedActions,
          rejected |-> <<>>, pc |-> reached.pc ]

\* syncOfflineActions (part_011:55-89) up to its first request: offline or
\* with nothing stored it returns
syncOfflineActions ==
    /\ onLine
    /\ Len(offlineActions) > 0
    /\ syncs' = Append(syncs, passStarted)
    /\ offlineActions' = storedAfter(passStarted, offlineActions)
    /\ UNCHANGED <<allSubscriptions, now, analytics, motivationalStats, patterns,
                   report, bulkActions, table, callVars, onLine, executions,
                   schedulerVars>>

\* the request of pass p is answered (part_011:73-74): the backend has
\* executed the action, or answers with an error, which resolves the await
\* all the same; the loop goes on to its next request or to its end
syncAwait(p, backendOk) ==
    /\ p \in 1..Len(syncs)
    /\ syncs[p].pc = "await"
    /\ LET action == syncs[p].actions[syncs[p].i]
           reached == syncLoop(syncs[p].actions, syncs[p].i + 1, syncs[p].failedActions)
           pass == [ syncs[p] EXCEPT !.i = reached.i,
                                     !.failedActions = reached.failedActions,
                                     !.rejected = IF backendOk THEN @ ELSE Append(@, action),
                                     !.pc = reached.pc ]
       IN  /\ executions' = [executions EXCEPT ![action.id] =
                                Append(@, IF backendOk THEN "ok" ELSE "error")]
           /\ syncs' = [syncs EXCEPT ![p] = pass]
           /\ offlineActions' = storedAfter(pass, offlineActions)
    /\ UNCHANGED <<allSubscriptions, now, analytics, motivationalStats, patterns,
                   report, bulkActions, table, callVars, onLine, schedulerVars>>

\* the online event (part_011:214-217): navigator.onLine is true again and
\* the listener calls syncOfflineActions
onlineEvent ==
    /\ ~onLine
    /\ onLine' = TRUE
    /\ IF Len(offlineActions) > 0
       THEN /\ syncs' = Append(syncs, passStarted)
            /\ offlineActions' = storedAfter(passStarted, offlineActions)
       ELSE UNCHANGED <<syncs, offlineActions>>
    /\ UNCHANGED <<allSubscriptions, now, analytics, motivationalStats, patterns,
                   report, bulkActions, table, callVars, executions,
                   schedulerVars>>

\* the offline event (part_011:219-221)
offlineEvent ==
    /\ onLine
    /\ onLine' = FALSE
    /\ UNCHANGED <<allSubscriptions, now, analytics, motivationalStats, patterns,
                   report, bulkActions, table, callVars, offlineActions, syncs,
                   executions, schedulerVars>>

\* the visibilitychange event of a tab that becomes visible
\* (part_011:224-228)
visibilitychangeEvent == onLine /\ syncOfflineActions

\* initializeOfflineSupport (part_011:297-307): the sync of the startup
initializeOfflineSupport == onLine /\ syncOfflineActions

\* offlineAwareSubscriptionCreate (part_011:234-254): online, the insert is
\* sent and its answer, also an error, ends the call; offline the action is
\* stored
offlineAwareSubscriptionCreate(subscriptionData) ==
    IF onLine
    THEN /\ LET row == insertedRow(subscriptionData, Len(table) + 1, now)
            IN  table' = IF checkConstraints(row) THEN Append(table, row) ELSE table
         /\ UNCHANGED <<allSubscriptions, now, analytics, motivationalStats,
                        patterns, report, bulkActions, callVars, offlineVars,
                        schedulerVars>>
    ELSE storeOfflineAction([ type |-> "create", table |-> "subscriptions",
                              data |-> subscriptionData ])

\* offlineAwareSubscriptionUpdate (part_011:256-273)
offlineAwareSubscriptionUpdate(id, updates) ==
    IF onLine
    THEN /\ table' = [ k \in 1..Len(table) |->
                         IF table[k].id = id /\ checkConstraints(updatedRow(table[k], updates))
                         THEN updatedRow(table[k], updates) ELSE table[k] ]
         /\ UNCHANGED <<allSubscriptions, now, analytics, motivationalStats,
                        patterns, report, bulkActions, callVars, offlineVars,
                        schedulerVars>>
    ELSE storeOfflineAction([ type |-> "update", table |-> "subscriptions",
                              data |-> Spread([id |-> id], updates) ])

\* offlineAwareSubscriptionDelete (part_011:275-292)
offlineAwareSubscriptionDelete(id) ==
    IF onLine
    THEN /\ table' = SelectSeq(table, LAMBDA row : row.id # id)
         /\ UNCHANGED <<allSubscriptions, now, analytics, motivationalStats,
                        patterns, report, bulkActions, callVars, offlineVars,
                        schedulerVars>>
    ELSE storeOfflineAction([ type |-> "delete", table |-> "subscriptions",
                              data |-> [id |-> id] ])

(* ------------------------------- the hook ------------------------------ *)

\* a row of the subscriptions table with every optional column null
BaseSub ==
    [ id |-> 0, cost |-> Cents(999), billing_cycle |-> "monthly",
      next_renewal_date |-> Date(2026, 6, 15), category |-> "Music",
      is_active |-> TRUE, cancellation_date |-> NoTime,
      last_used_date |-> NoDate, value_rating |-> 0,
      created_at |-> At(2024, 1, 10, 0), price_history |-> <<>> ]

\* useState: no rows before the first fetch; the memo of the first render
\* returns initialAnalytics, and the dashboard hands the empty list to
\* MotivationalStats
HookInit ==
    /\ allSubscriptions = <<>>
    /\ analytics = initialAnalytics
    /\ motivationalStats = [monthlySavings |-> 0, mindfulStreak |-> 0]
    /\ patterns = <<>>
    /\ report = reportOf(<<>>, "month")
    /\ bulkActions = bulkActionsOf(<<>>, {})
    /\ table = <<>>
    /\ calls = {}
    /\ onLine = TRUE
    /\ offlineActions = <<>>
    /\ syncs = <<>>
    /\ executions = <<>>
    /\ notification_logs = <<>>
    /\ runs = <<>>

\* fetchSubscriptions (lines 80-95) when the table holds the rows fetched
\* before and one inserted row: setAllSubscriptions(data), then the render
\* re-evaluates the analytics memo and the memo of MotivationalStats, which
\* read the clock (t)
fetchSubscriptions(row, t) ==
    /\ getTime(t) >= getTime(now)
    /\ allSubscriptions' =
           Append(allSubscriptions, [row EXCEPT !.id = Len(allSubscriptions) + 1])
    /\ now' = t
    /\ analytics' = Analytics(allSubscriptions', t)
    /\ motivationalStats' = StatsAnalytics(allSubscriptions', t)
    /\ bulkActions' = bulkActionsOf(allSubscriptions', bulkActions.selectedIds)
    /\ UNCHANGED <<patterns, report, table,
                   callVars, offlineVars, schedulerVars>>

\* fetchSubscriptions (lines 80-95) when the table holds no row of the user
\* any more (each was deleted): setAllSubscriptions(data || []), then the
\* render re-evaluates both memos
fetchNoSubscriptions(t) ==
    /\ getTime(t) >= getTime(now)
    /\ allSubscriptions' = <<>>
    /\ now' = t
    /\ analytics' = Analytics(allSubscriptions', t)
    /\ motivationalStats' = StatsAnalytics(allSubscriptions', t)
    /\ bulkActions' = bulkActionsOf(allSubscriptions', bulkActions.selectedIds)
    /\ UNCHANGED <<patterns, report, table,
                   callVars, offlineVars, schedulerVars>>

\* analyzeUsagePatterns (part_008:304-331) at time t, when the table holds
\* the rows of the last fetch: the query returns the active ones and the
\* loop analyses each
analyzeUsagePatterns(t) ==
    /\ getTime(t) >= getTime(now)
    /\ LET subscriptions == activeSubsOf(allSubscriptions)
       IN  patterns' = [ i \in 1..Len(subscriptions) |->
                           analyzeSubscriptionPattern(subscriptions[i], t) ]
    /\ now' = t
    /\ UNCHANGED <<allSubscriptions, analytics, motivationalStats, report, bulkActions,
                   table,
                   callVars, offlineVars, schedulerVars>>

\* the render of ReportsPage (part_007:169-216) for the route parameter
\* timeframe, its hook holding the rows of the last fetch
ReportsPage(timeframe) ==
    /\ report' = reportOf(allSubscriptions, timeframe)
    /\ UNCHANGED <<allSubscriptions, now, analytics, motivationalStats, patterns,
                   bulkActions, table,
                   callVars, offlineVars, schedulerVars>>

\* the dashboard's selection becomes selectedIds (UpcomingRenewalsAlert.tsx:
\* 168) and BulkActions re-evaluates its memo
selectSubscriptions(selectedIds) ==
    /\ bulkActions' = bulkActionsOf(allSubscriptions, selectedIds)
    /\ UNCHANGED <<allSubscriptions, now, analytics, motivationalStats, patterns,
                   report, table,
                   callVars, offlineVars, schedulerVars>>

(* ------------------- specification: cost normalisation ----------------- *)

Cycles == {"weekly", "monthly", "yearly"}

NowCost == {At(2025, 3, 12, 1)}

PoolCost ==
    { [BaseSub EXCEPT !.cost = c, !.billing_cycle = b, !.is_active = a] :
        c \in {Cents(999), Cents(12000)}, b \in Cycles, a \in BOOLEAN }

InitCost == HookInit /\ now \in NowCost

NextCost ==
    \E row \in PoolCost, t \in NowCost :
        Len(allSubscriptions) < MaxSubs /\ fetchSubscriptions(row, t)

SpecCost == InitCost /\ [][NextCost]_vars

\* twelve times the monthly-equivalent cost, as section 4.1 states it
RECURSIVE TwelveTimesMonthly(_)
TwelveTimesMonthly(subs) ==
    IF Len(subs) = 0 THEN 0
    ELSE LET s == Head(subs)
         IN  (CASE s.billing_cycle = "monthly" -> 12 * s.cost
                [] s.billing_cycle = "yearly" -> s.cost
                [] s.billing_cycle = "weekly" -> 52 * s.cost)
             + TwelveTimesMonthly(Tail(subs))

\* C1: the monthly-equivalent cost the engine uses is cost for a monthly,
\* cost/12 for a yearly and cost*52/12 for a weekly subscription: the total
\* over the active subscriptions is the sum of these figures, and one active
\* yearly subscription costing 120.00 gives a monthly total of 10.00.
C1_MonthlyCost ==
    /\ 12 * analytics.totalMonthlyCost
         = TwelveTimesMonthly(SelectSeq(allSubscriptions, LAMBDA s : s.is_active))
    /\ ( /\ Len(allSubscriptions) = 1
         /\ allSubscriptions[1].is_active
         /\ allSubscriptions[1].billing_cycle = "yearly"
         /\ allSubscriptions[1].cost = Cents(12000) )
       => analytics.totalMonthlyCost = Cents(1000)

\* C1 witness: an active subscription of each billing cycle has been summed
C1_Witness ==
    /\ Len(allSubscriptions) = 3
    /\ \A k \in 1..3 : allSubscriptions[k].is_active
    /\ {allSubscriptions[k].billing_cycle : k \in 1..3} = Cycles
    /\ analytics.totalMonthlyCost > 0

(* ----------------------- specification: categories --------------------- *)

Categories == {"Music", "Video", "constructor"}

PoolCategory ==
    { [BaseSub EXCEPT !.category = c, !.billing_cycle = b, !.is_active = a] :
        c \in Categories, b \in {"monthly", "yearly"}, a \in BOOLEAN }

InitCategory == HookInit /\ now \in NowCost

NextCategory ==
    \E row \in PoolCategory, t \in NowCost :
        Len(allSubscriptions) < MaxSubs /\ fetchSubscriptions(row, t)

SpecCategory == InitCategory /\ [][NextCategory]_vars

\* Object.values(obj).reduce((a, b) => a + b, 0) over the keys in ks
RECURSIVE JsSumValues(_, _)
JsSumValues(obj, ks) ==
    IF ks = {} THEN JsNum(0)
    ELSE LET k == CHOOSE x \in ks : TRUE
         IN  JsPlus(JsSumValues(obj, ks \ {k}), obj[k])

ActiveCategories ==
    { allSubscriptions[k].category :
        k \in { i \in 1..Len(allSubscriptions) : allSubscriptions[i].is_active } }

ActiveCount(c) ==
    Cardinality({ k \in 1..Len(allSubscriptions) :
                    allSubscriptions[k].is_active /\ allSubscriptions[k].category = c })

DuplicateInsights(c) ==
    { k \in 1..Len(analytics.recommendations) :
        /\ analytics.recommendations[k].type = "duplicate_category"
        /\ analytics.recommendations[k].subscription.category = c }

\* C2: the values of categoryBreakdown sum to totalMonthlyCost, and its
\* keys are the categories of the active subscriptions.
C2_BreakdownSumsToTotal ==
    /\ DOMAIN analytics.categoryBreakdown = ActiveCategories
    /\ JsSumValues(analytics.categoryBreakdown, DOMAIN analytics.categoryBreakdown)
         = JsNum(analytics.totalMonthlyCost)

\* C3: a category with N > 1 active subscriptions has exactly one
\* duplicate_category insight, a category with at most one has none.
C3_OneDuplicateInsightPerCategory ==
    \A c \in Categories :
        Cardinality(DuplicateInsights(c)) = (IF ActiveCount(c) > 1 THEN 1 ELSE 0)

\* C2 and C3 for category names that Object.prototype does not define: the
\* two laws hold for every such collection
NoInheritedCategory ==
    \A k \in 1..Len(allSubscriptions) :
        allSubscriptions[k].is_active
            => allSubscriptions[k].category \notin ObjectPrototypeKeys

BreakdownSumsToTotalForOwnKeys == NoInheritedCategory => C2_BreakdownSumsToTotal

OneDuplicateInsightForOwnKeys == NoInheritedCategory => C3_OneDuplicateInsightPerCategory

(* ---------------------- specification: price history ------------------- *)

PriceHistories ==
    { <<>>,
      <<[date |-> Date(2024, 1, 10), cost |-> Cents(500)]>>,
      <<[date |-> Date(2024, 1, 10), cost |-> Cents(800)],
        [date |-> Date(2024, 6, 10), cost |-> Cents(500)]>> }

PoolPrice ==
    { [BaseSub EXCEPT !.cost = c, !.price_history = h, !.is_active = a] :
        c \in {Cents(500), Cents(800)}, h \in PriceHistories, a \in BOOLEAN }

InitPrice == HookInit /\ now \in NowCost

NextPrice ==
    \E row \in PoolPrice, t \in NowCost :
        Len(allSubscriptions) < MaxSubs /\ fetchSubscriptions(row, t)

SpecPrice == InitPrice /\ [][NextPrice]_vars

\* the positions of the active subscriptions that have a price history
IncreaseCandidates ==
    { k \in 1..Len(allSubscriptions) :
        allSubscriptions[k].is_active /\ Len(allSubscriptions[k].price_history) > 0 }

IncreaseAt(k) == allSubscriptions[k].cost - allSubscriptions[k].price_history[1].cost

MaxIncrease == CHOOSE m \in {IncreaseAt(k) : k \in IncreaseCandidates} :
                   \A k \in IncreaseCandidates : IncreaseAt(k) <= m

\* C4: largestIncrease is an active subscription with a price history that
\* maximises cost - price_history[0].cost when that maximum is above 0
\* (baseline 5, cost 8: increase 3), and is absent when the maximum is at
\* most 0 or no active subscription has a price history.
C4_LargestIncrease ==
    IF IncreaseCandidates # {} /\ MaxIncrease > 0
    THEN /\ Len(analytics.largestIncrease) = 1
         /\ analytics.largestIncrease[1].increase = MaxIncrease
         /\ \E k \in IncreaseCandidates :
                /\ analytics.largestIncrease[1].sub = allSubscriptions[k]
                /\ IncreaseAt(k) = MaxIncrease
    ELSE analytics.largestIncrease = <<>>

\* the part of C4 the code keeps: a positive maximum is reported
LargestIncreaseWhenPositive ==
    (IncreaseCandidates # {} /\ MaxIncrease > 0) => C4_LargestIncrease

\* the scenario of section 8: baseline 5, current cost 8, increase 3
LargestIncreaseScenario ==
    ( /\ Len(allSubscriptions) = 1
      /\ allSubscriptions[1].is_active
      /\ allSubscriptions[1].cost = Cents(800)
      /\ Len(allSubscriptions[1].price_history) = 1
      /\ allSubscriptions[1].price_history[1].cost = Cents(500) )
    => ( /\ Len(analytics.largestIncrease) = 1
         /\ analytics.largestIncrease[1].increase = Cents(300) )

(* ------------------------ specification: renewals ---------------------- *)

\* Wednesday 12 March 2025, at midnight and later in the day
NowRenewals == {At(2025, 3, 12, 0), At(2025, 3, 12, TicksPerDay - 1)}

RenewalDates ==
    {Date(2025, 3, 11), Date(2025, 3, 12), Date(2025, 3, 19), Date(2025, 3, 20),
     Date(2025, 3, 21)}

PoolRenewals ==
    { [BaseSub EXCEPT !.next_renewal_date = r, !.is_active = a] :
        r \in RenewalDates, a \in BOOLEAN }

InitRenewals == HookInit /\ now \in NowRenewals

NextRenewals ==
    \E row \in PoolRenewals, t \in NowRenewals :
        Len(allSubscriptions) < MaxSubs /\ fetchSubscriptions(row, t)

SpecRenewals == InitRenewals /\ [][NextRenewals]_vars

\* ticks from now to the renewal instant of the k-th subscription
TicksUntilRenewal(k) ==
    getTime(parseISO(allSubscriptions[k].next_renewal_date)) - getTime(now)

UpcomingIds == { analytics.upcomingRenewals[i].id : i \in 1..Len(analytics.upcomingRenewals) }

\* upcomingRenewals holds rows of the collection, each at most once
UpcomingAreRows ==
    /\ Cardinality(UpcomingIds) = Len(analytics.upcomingRenewals)
    /\ \A i \in 1..Len(analytics.upcomingRenewals) :
           /\ analytics.upcomingRenewals[i].id \in 1..Len(allSubscriptions)
           /\ analytics.upcomingRenewals[i]
                = allSubscriptions[analytics.upcomingRenewals[i].id]

\* C5 as claimed: upcomingRenewals is exactly the active subscriptions whose
\* renewal instant is between now and now + 7 days inclusive.
C5_WithinSevenDaysOfNow ==
    /\ UpcomingAreRows
    /\ UpcomingIds =
         { k \in 1..Len(allSubscriptions) :
             /\ allSubscriptions[k].is_active
             /\ TicksUntilRenewal(k) >= 0
             /\ TicksUntilRenewal(k) <= 7 * TicksPerDay }

\* C5 amended: upcomingRenewals is exactly the active subscriptions whose
\* renewal instant is later than now - 1 day and earlier than now + 8 days
\* (a whole-day difference, truncated toward zero, of 0 to 7); an inactive
\* subscription is never included.
C5_WholeDaysZeroToSeven ==
    /\ UpcomingAreRows
    /\ UpcomingIds =
         { k \in 1..Len(allSubscriptions) :
             /\ allSubscriptions[k].is_active
             /\ TicksUntilRenewal(k) > 0 - TicksPerDay
             /\ TicksUntilRenewal(k) < 8 * TicksPerDay }

\* C5 witness: a renewal earlier today and a renewal more than 7 days ahead
\* are both listed, next to an inactive subscription renewing today
C5_Witness ==
    /\ \E k \in UpcomingIds : TicksUntilRenewal(k) < 0
    /\ \E k \in UpcomingIds : TicksUntilRenewal(k) > 7 * TicksPerDay
    /\ \E k \in 1..Len(allSubscriptions) :
           ~allSubscriptions[k].is_active /\ TicksUntilRenewal(k) = 0 - (TicksPerDay - 1)

RenewalTicks(sub) == getTime(parseISO(sub.next_renewal_date))

\* C6 as claimed: upcomingRenewals is in ascending order of renewal date,
\* equal dates in input order.
C6_AscendingRenewalDate ==
    \A i, j \in 1..Len(analytics.upcomingRenewals) :
        i < j =>
            \/ RenewalTicks(analytics.upcomingRenewals[i])
                 < RenewalTicks(analytics.upcomingRenewals[j])
            \/ /\ RenewalTicks(analytics.upcomingRenewals[i])
                    = RenewalTicks(analytics.upcomingRenewals[j])
               /\ analytics.upcomingRenewals[i].id < analytics.upcomingRenewals[j].id

\* C6 amended: upcomingRenewals keeps the order of the input collection
\* whatever the renewal dates are (it is filtered, never sorted), so
\* subscriptions with equal renewal dates keep their relative order.
C6_InputOrder ==
    \A i, j \in 1..Len(analytics.upcomingRenewals) :
        i < j => analytics.upcomingRenewals[i].id < analytics.upcomingRenewals[j].id

\* C6 witness: a later renewal is listed before an earlier one, and two
\* equal renewal dates are listed
C6_Witness ==
    /\ Len(analytics.upcomingRenewals) = 3
    /\ RenewalTicks(analytics.upcomingRenewals[1])
         > RenewalTicks(analytics.upcomingRenewals[2])
    /\ RenewalTicks(analytics.upcomingRenewals[2])
         = RenewalTicks(analytics.upcomingRenewals[3])

(* ------------------------ specification: last week --------------------- *)

\* Monday 10, Wednesday 12 and Sunday 16 March 2025: the week before is
\* Monday 3 to Sunday 9 March
NowLastWeek ==
    {At(2025, 3, 10, 0), At(2025, 3, 12, TicksPerDay - 1), At(2025, 3, 16, TicksPerDay - 1)}

LastWeekDates ==
    {Date(2025, 3, 2), Date(2025, 3, 3), Date(2025, 3, 9), Date(2025, 3, 10)}

PoolLastWeek ==
    { [BaseSub EXCEPT !.next_renewal_date = r, !.billing_cycle = b] :
        r \in LastWeekDates, b \in Cycles }

InitLastWeek == HookInit /\ now \in NowLastWeek

NextLastWeek ==
    \E row \in PoolLastWeek, t \in NowLastWeek :
        Len(allSubscriptions) < MaxSubs /\ fetchSubscriptions(row, t)

SpecLastWeek == InitLastWeek /\ [][NextLastWeek]_vars

\* weeks run Monday to Sunday and day 0 is a Monday: the week of a day
WeekOf(date) == DayNumber(date) \div 7

\* the subscriptions whose next_renewal_date is a day of the week before
\* the week of now
RenewedLastWeek ==
    SelectSeq(allSubscriptions, LAMBDA s : WeekOf(s.next_renewal_date) = WeekOf(now) - 1)

\* C7 as claimed: lastWeekCost is the sum of the monthly-equivalent cost of
\* the subscriptions renewing in the trailing week, for every billing cycle.
C7_LastWeekMonthlyEquivalent ==
    12 * analytics.lastWeekCost = TwelveTimesMonthly(RenewedLastWeek)

RECURSIVE RawCostSum(_)
RawCostSum(subs) ==
    IF Len(subs) = 0 THEN 0 ELSE Head(subs).cost + RawCostSum(Tail(subs))

\* C7 amended: lastWeekCost is the sum of the raw cost (the amount of one
\* billing period, not normalised to a month) of the subscriptions whose
\* next_renewal_date falls in the Monday-to-Sunday week before the week of
\* now; it equals the monthly-equivalent sum only when all of them are
\* billed monthly.
C7_LastWeekRawCost ==
    /\ analytics.lastWeekCost = RawCostSum(RenewedLastWeek)
    /\ (\A k \in 1..Len(RenewedLastWeek) : RenewedLastWeek[k].billing_cycle = "monthly")
         => C7_LastWeekMonthlyEquivalent

\* C7 witness: a weekly, a monthly and a yearly subscription renewed on the
\* first and last day of last week and were summed
C7_Witness ==
    /\ Len(RenewedLastWeek) = 3
    /\ {RenewedLastWeek[k].billing_cycle : k \in 1..3} = Cycles
    /\ {RenewedLastWeek[k].next_renewal_date : k \in 1..3}
         = {Date(2025, 3, 3), Date(2025, 3, 9)}
    /\ analytics.lastWeekCost = 3 * Cents(999)

(* ------------------------ specification: last month -------------------- *)

\* Saturday 1 March 2025 at midnight, Monday 31 March 2025 (February has no
\* day 31) and 15 January 2026 (the month before is in the year before)
NowMonths ==
    {At(2025, 3, 1, 0), At(2025, 3, 31, TicksPerDay - 1), At(2026, 1, 15, 0)}

CreatedAts ==
    { At(2024, 2, 15, 0), At(2024, 12, 15, 0), At(2025, 1, 31, TicksPerDay - 1),
      At(2025, 2, 1, 0), At(2025, 2, 28, TicksPerDay - 1), At(2025, 3, 1, 0),
      At(2025, 12, 31, TicksPerDay - 1) }

PoolMonths ==
    { [BaseSub EXCEPT !.created_at = c, !.billing_cycle = "monthly", !.is_active = TRUE] :
        c \in CreatedAts }
    \cup
    { [BaseSub EXCEPT !.created_at = c, !.billing_cycle = "yearly", !.is_active = FALSE] :
        c \in CreatedAts }

InitMonths == HookInit /\ now \in NowMonths

\* created_at defaults to now() at insertion: no row is created in the future
NextMonths ==
    \E row \in PoolMonths, t \in NowMonths :
        /\ Len(allSubscriptions) < MaxSubs
        /\ getTime(row.created_at) <= getTime(t)
        /\ fetchSubscriptions(row, t)

SpecMonths == InitMonths /\ [][NextMonths]_vars

\* the subscriptions created in the calendar month before the month of now
CreatedLastMonth ==
    SelectSeq(allSubscriptions, LAMBDA s : s.created_at.ym = now.ym - 1)

\* C8: lastMonthCost is the sum of monthly_cost over the subscriptions whose
\* created_at lies in the calendar month (and year) just before the month of
\* now, and 0 when there is none.
C8_LastMonthCost ==
    /\ 12 * analytics.lastMonthCost = TwelveTimesMonthly(CreatedLastMonth)
    /\ Len(CreatedLastMonth) = 0 => analytics.lastMonthCost = 0

\* C8 witness: on 31 March an active and an inactive subscription created
\* on the first and the last day of February were summed, one created on
\* 1 March was not
C8_Witness ==
    /\ now = At(2025, 3, 31, TicksPerDay - 1)
    /\ Len(allSubscriptions) = 3
    /\ Len(CreatedLastMonth) = 2
    /\ {CreatedLastMonth[k].created_at : k \in 1..2}
         = {At(2025, 2, 1, 0), At(2025, 2, 28, TicksPerDay - 1)}
    /\ {CreatedLastMonth[k].is_active : k \in 1..2} = BOOLEAN
    /\ analytics.lastMonthCost = Cents(999) + (Cents(999) \div 12)

(* -------------------------- specification: totals ---------------------- *)

PoolTotals ==
    { [BaseSub EXCEPT !.created_at = c, !.next_renewal_date = r, !.is_active = a] :
        c \in {At(2024, 1, 10, 0), At(2025, 2, 15, 0)},
        r \in {Date(2025, 3, 4), Date(2026, 6, 15)},
        a \in BOOLEAN }

InitTotals == HookInit /\ now \in NowCost

NextTotals ==
    \E row \in PoolTotals, t \in NowCost :
        Len(allSubscriptions) < MaxSubs /\ fetchSubscriptions(row, t)

SpecTotals == InitTotals /\ [][NextTotals]_vars

\* a step in which the collection gains one inactive subscription, the
\* clock reading unchanged
InactiveAdded ==
    /\ Len(allSubscriptions') = Len(allSubscriptions) + 1
    /\ SubSeq(allSubscriptions', 1, Len(allSubscriptions)) = allSubscriptions
    /\ ~allSubscriptions'[Len(allSubscriptions')].is_active
    /\ now' = now

MonthsBack == 12

NowStreak == {At(2025, 3, 31, TicksPerDay - 1), At(2026, 1, 1, 0)}

\* the subscription created k months before the month of t: on the first
\* instant of the month when k is even and on its last instant when k is
\* odd, every third one inactive
StreakRow(t, k) ==
    LET ym == t.ym - k
    IN  [BaseSub EXCEPT
            !.created_at = IF k % 2 = 0 THEN firstOfMonth(ym)
                           ELSE [ym |-> ym, d |-> DaysInMonth(ym), t |-> TicksPerDay - 1],
            !.is_active = (k % 3 # 1)]

MonthsAgo(sub) == now.ym - sub.created_at.ym

InitStreak == HookInit /\ now \in NowStreak

\* the rows arrive newest first, each created in an earlier month than the
\* one before; the clock reading stays the same
NextStreak ==
    \E k \in 0..MonthsBack :
        /\ Len(allSubscriptions) > 0
             => k > MonthsAgo(allSubscriptions[Len(allSubscriptions)])
        /\ fetchSubscriptions(StreakRow(now, k), now)

SpecStreak == InitStreak /\ [][NextStreak]_vars

CreationMonths == { allSubscriptions[k].created_at.ym : k \in 1..Len(allSubscriptions) }

\* the number of consecutive months, from the month of now backward, that
\* have a creation, at most 12
ConsecutiveMonths ==
    CHOOSE n \in 0..12 :
        /\ \A i \in 0..(n - 1) : (now.ym - i) \in CreationMonths
        /\ n = 12 \/ (now.ym - n) \notin CreationMonths

\* C10: mindfulStreak is the number of consecutive calendar months, from the
\* month of now backward, with a subscription (active or not) created in the
\* month, stopping at the first month without one; it is between 0 and 12,
\* and 0 when nothing was created in the current month.  Both computations
\* (the hook and MotivationalStats) give it.
C10_MindfulStreak ==
    /\ analytics.mindfulStreak = ConsecutiveMonths
    /\ motivationalStats.mindfulStreak = ConsecutiveMonths
    /\ analytics.mindfulStreak \in 0..12
    /\ now.ym \notin CreationMonths => analytics.mindfulStreak = 0

\* C10 witness: thirteen months in a row have a creation and the streak
\* stopped at 12
C10_Witness ==
    /\ \A i \in 0..12 : (now.ym - i) \in CreationMonths
    /\ analytics.mindfulStreak = 12
    /\ motivationalStats.mindfulStreak = 12

\* a streak that a gap ended: months 0 to 2 have a creation, month 3 has
\* none, month 4 has one
StreakEndsAtGap ==
    ( /\ \A i \in 0..2 : (now.ym - i) \in CreationMonths
      /\ (now.ym - 3) \notin CreationMonths
      /\ (now.ym - 4) \in CreationMonths )
    => analytics.mindfulStreak = 3

(* ------------------ specification: removing recent rows ---------------- *)

\* the months before the month of now in which the rows are created
RecentMonthsBack == 3

InitRecent == HookInit /\ now \in NowStreak

\* rows created in the month of now or in one of the months before it, in
\* any order, several in one month; the clock reading stays the same
NextRecent ==
    \E k \in 0..RecentMonthsBack :
        /\ Len(allSubscriptions) < MaxSubs
        /\ fetchSubscriptions(StreakRow(now, k), now)

SpecRecent == InitRecent /\ [][NextRecent]_vars

\* the ids of the rows created in month ym
CreatedIn(ym) ==
    { allSubscriptions[k].id : k \in { j \in 1..Len(allSubscriptions) :
                                         allSubscriptions[j].created_at.ym = ym } }

\* the latest month that has a creation (the month of now when there is no
\* row)
LatestCreationMonth ==
    IF CreationMonths = {} THEN now.ym
    ELSE CHOOSE m \in CreationMonths : \A n \in CreationMonths : n <= m

\* the collection without the rows whose ids are in R
Without(R) == SelectSeq(allSubscriptions, LAMBDA s : s.id \notin R)

\* the streak the hook computes for the collection without the rows in R,
\* at the same now
StreakWithout(R) == Analytics(Without(R), now).mindfulStreak

\* C11: for a fixed now, removing any of the subscriptions created in the
\* most recent month (the month of now, or the latest month with a creation)
\* never increases mindfulStreak: the streak of the reduced collection is at
\* most the streak of the original collection.
C11_RemovingRecentNeverIncreases ==
    \A ym \in {now.ym, LatestCreationMonth} :
        \A R \in SUBSET CreatedIn(ym) :
            StreakWithout(R) <= analytics.mindfulStreak

\* C11 witness: the streak is 2; removing every row of the month of now
\* leaves rows and a streak of 0, and removing one of two of them leaves the
\* streak as it was
C11_Witness ==
    /\ analytics.mindfulStreak = 2
    /\ Cardinality(CreatedIn(now.ym)) = 2
    /\ Len(Without(CreatedIn(now.ym))) > 0
    /\ StreakWithout(CreatedIn(now.ym)) = 0
    /\ \E r \in CreatedIn(now.ym) : StreakWithout({r}) = 2

(* --------------------- specification: empty collection ----------------- *)

NowEmpty == {At(2025, 3, 12, 0), At(2025, 3, 12, TicksPerDay - 1), At(2025, 4, 2, 0)}

\* the hook mounts on 12 March
InitEmpty == HookInit /\ now = At(2025, 3, 12, 0)

\* rows are fetched one more at a time, and a fetch may find every row
\* deleted
NextEmpty ==
    \E t \in NowEmpty :
        \/ \E row \in PoolTotals :
               Len(allSubscriptions) < MaxSubs /\ fetchSubscriptions(row, t)
        \/ Len(allSubscriptions) > 0 /\ fetchNoSubscriptions(t)

SpecEmpty == InitEmpty /\ [][NextEmpty]_vars

\* C12: for an empty collection the analytics have every numeric field 0
\* (totalMonthlyCost, lastMonthCost, lastWeekCost, mindfulStreak), every list
\* or map field empty (upcomingRenewals, categoryBreakdown, historicalData,
\* recommendations), and largestIncrease and biggestSaving absent.
C12_EmptyCollection ==
    Len(allSubscriptions) = 0 =>
        /\ analytics.totalMonthlyCost = 0
        /\ analytics.lastMonthCost = 0
        /\ analytics.lastWeekCost = 0
        /\ analytics.mindfulStreak = 0
        /\ Len(analytics.upcomingRenewals) = 0
        /\ DOMAIN analytics.categoryBreakdown = {}
        /\ Len(analytics.historicalData) = 0
        /\ Len(analytics.recommendations) = 0
        /\ Len(analytics.largestIncrease) = 0
        /\ Len(analytics.biggestSaving) = 0

\* C12 witness: the collection is empty on 2 April after a fetch (the hook
\* mounted in March), and the memo returned the empty analytics
C12_Witness ==
    /\ Len(allSubscriptions) = 0
    /\ now = At(2025, 4, 2, 0)
    /\ analytics = initialAnalytics

(* ------------------------ specification: ratings ----------------------- *)

\* value_rating: null (0) or 1 to 5
PoolRatings ==
    { [BaseSub EXCEPT !.value_rating = v, !.billing_cycle = b] :
        v \in {0, 1, 2, 3, 5}, b \in {"monthly", "yearly"} }
    \cup { [BaseSub EXCEPT !.value_rating = 2, !.billing_cycle = "weekly"] }
    \cup { [BaseSub EXCEPT !.value_rating = v, !.is_active = FALSE] : v \in {0, 1} }

InitRatings == HookInit /\ now \in NowCost

NextRatings ==
    \E row \in PoolRatings, t \in NowCost :
        Len(allSubscriptions) < MaxSubs /\ fetchSubscriptions(row, t)

SpecRatings == InitRatings /\ [][NextRatings]_vars

\* the positions in recommendations of the insights of type type that
\* reference the subscription sub
InsightsOn(sub, type) ==
    { k \in 1..Len(analytics.recommendations) :
        /\ analytics.recommendations[k].type = type
        /\ analytics.recommendations[k].subscription.id = sub.id }

\* C13: every active subscription whose value_rating is present and at most
\* 2 has exactly one low_value insight in recommendations, referencing it,
\* with potential_savings equal to its monthly cost; an active subscription
\* with no rating or a rating of 3 or more, and an inactive subscription,
\* has none.
C13_LowValueInsight ==
    \A j \in 1..Len(allSubscriptions) :
        LET sub == allSubscriptions[j]
            low == InsightsOn(sub, "low_value")
        IN  IF sub.is_active /\ sub.value_rating \in 1..2
            THEN /\ Cardinality(low) = 1
                 /\ \A k \in low :
                       /\ analytics.recommendations[k].subscription = sub
                       /\ 12 * analytics.recommendations[k].potential_savings
                            = TwelveTimesMonthly(<<sub>>)
            ELSE low = {}

\* C13 witness: a yearly subscription rated 2 has its insight with a twelfth
\* of its cost, next to an active one rated 3 and an inactive one rated 1
\* that have none
C13_Witness ==
    /\ Len(allSubscriptions) = 3
    /\ \E j \in 1..3 :
          /\ allSubscriptions[j].is_active
          /\ allSubscriptions[j].value_rating = 2
          /\ allSubscriptions[j].billing_cycle = "yearly"
          /\ \E k \in InsightsOn(allSubscriptions[j], "low_value") :
                analytics.recommendations[k].potential_savings = Cents(999) \div 12
    /\ \E j \in 1..3 :
          /\ allSubscriptions[j].is_active /\ allSubscriptions[j].value_rating = 3
          /\ InsightsOn(allSubscriptions[j], "low_value") = {}
    /\ \E j \in 1..3 :
          /\ ~allSubscriptions[j].is_active /\ allSubscriptions[j].value_rating = 1
          /\ InsightsOn(allSubscriptions[j], "low_value") = {}

(* ------------------------- specification: usage ------------------------ *)

\* the first and the last instant of 31 March 2025
NowUsage == {At(2025, 3, 31, 0), At(2025, 3, 31, TicksPerDay - 1)}

\* last_used_date: null, the day before now, and 30, 31 and 32 days before
\* 31 March
LastUsedDates ==
    {NoDate, Date(2025, 3, 30), Date(2025, 3, 1), Date(2025, 2, 28), Date(2025, 2, 27)}

PoolUsage ==
    { [BaseSub EXCEPT !.last_used_date = u] : u \in LastUsedDates }
    \cup { [BaseSub EXCEPT !.last_used_date = u, !.billing_cycle = "yearly"] :
             u \in {Date(2025, 3, 1), Date(2025, 2, 28)} }
    \cup { [BaseSub EXCEPT !.last_used_date = Date(2025, 2, 27), !.is_active = FALSE] }

InitUsage == HookInit /\ now \in NowUsage

NextUsage ==
    \E row \in PoolUsage, t \in NowUsage :
        Len(allSubscriptions) < MaxSubs /\ fetchSubscriptions(row, t)

SpecUsage == InitUsage /\ [][NextUsage]_vars

\* the time from local midnight of the last use to now, in ticks
TicksSinceLastUse(sub) == getTime(now) - (DayNumber(sub.last_used_date) * TicksPerDay)

\* the underutilized insights on sub are exactly one, with the monthly cost
\* of sub as potential_savings, when emitted holds, and none otherwise
UnderutilizedIff(sub, emitted) ==
    LET unused == InsightsOn(sub, "underutilized")
    IN  IF emitted
        THEN /\ Cardinality(unused) = 1
             /\ \A k \in unused :
                   12 * analytics.recommendations[k].potential_savings
                       = TwelveTimesMonthly(<<sub>>)
        ELSE unused = {}

\* C14 as claimed: an underutilized insight is emitted for an active
\* subscription exactly when last_used_date is present and any time strictly
\* greater than 30 days has elapsed since it, a fraction of a day included,
\* with potential_savings equal to the monthly cost.
C14_MoreThanThirtyDaysElapsed ==
    \A j \in 1..Len(allSubscriptions) :
        LET sub == allSubscriptions[j]
        IN  UnderutilizedIff(sub, /\ sub.is_active
                                  /\ IsSet(sub.last_used_date)
                                  /\ TicksSinceLastUse(sub) > 30 * TicksPerDay)

\* C14 amended: an underutilized insight is emitted for an active
\* subscription exactly when last_used_date is present and at least 31 full
\* days have elapsed from its local midnight to now, with potential_savings
\* equal to the monthly cost; 30 days and a fraction of a day do not count.
C14_ThirtyOneWholeDays ==
    \A j \in 1..Len(allSubscriptions) :
        LET sub == allSubscriptions[j]
        IN  UnderutilizedIff(sub, /\ sub.is_active
                                  /\ IsSet(sub.last_used_date)
                                  /\ TicksSinceLastUse(sub) >= 31 * TicksPerDay)

\* C14 witness: at the last instant of 31 March a yearly subscription last
\* used on 28 February has its insight, one last used on 1 March (more than
\* 30 days of elapsed time) has none, and one never used has none
C14_Witness ==
    /\ now = At(2025, 3, 31, TicksPerDay - 1)
    /\ Len(allSubscriptions) = 3
    /\ \E j \in 1..3 :
          /\ allSubscriptions[j].last_used_date = Date(2025, 2, 28)
          /\ allSubscriptions[j].billing_cycle = "yearly"
          /\ \E k \in InsightsOn(allSubscriptions[j], "underutilized") :
                analytics.recommendations[k].potential_savings = Cents(999) \div 12
    /\ \E j \in 1..3 :
          /\ allSubscriptions[j].last_used_date = Date(2025, 3, 1)
          /\ TicksSinceLastUse(allSubscriptions[j]) > 30 * TicksPerDay
          /\ InsightsOn(allSubscriptions[j], "underutilized") = {}
    /\ \E j \in 1..3 :
          /\ ~IsSet(allSubscriptions[j].last_used_date)
          /\ InsightsOn(allSubscriptions[j], "underutilized") = {}

(* ---------------------- specification: cancellations ------------------- *)

\* 9.99 a month, 120.00 a year (10.00 a month) and 3.00 a week (13.00 a
\* month); active or not; cancellation_date null or set
PoolCancelled ==
    { [BaseSub EXCEPT !.cost = cb[1], !.billing_cycle = cb[2],
                      !.is_active = a, !.cancellation_date = c] :
        cb \in { <<Cents(999), "monthly">>, <<Cents(12000), "yearly">>,
                 <<Cents(300), "weekly">> },
        a \in BOOLEAN,
        c \in {NoTime, At(2025, 2, 1, 0)} }

InitCancelled == HookInit /\ now \in NowCost

NextCancelled ==
    \E row \in PoolCancelled, t \in NowCost :
        Len(allSubscriptions) < MaxSubs /\ fetchSubscriptions(row, t)

SpecCancelled == InitCancelled /\ [][NextCancelled]_vars

\* the positions of the subscriptions that are inactive and have a
\* cancellation_date
CancelledAt ==
    { j \in 1..Len(allSubscriptions) :
        /\ ~allSubscriptions[j].is_active
        /\ IsSet(allSubscriptions[j].cancellation_date) }

\* C15: biggestSaving is a subscription with the highest monthly-equivalent
\* cost among those that are inactive and have a cancellation_date, absent
\* when there is none; an active subscription or one without a
\* cancellation_date is never returned.
C15_BiggestSaving ==
    IF CancelledAt = {}
    THEN Len(analytics.biggestSaving) = 0
    ELSE /\ Len(analytics.biggestSaving) = 1
         /\ \E j \in CancelledAt :
               /\ analytics.biggestSaving[1] = allSubscriptions[j]
               /\ \A i \in CancelledAt :
                     TwelveTimesMonthly(<<allSubscriptions[i]>>)
                         <= TwelveTimesMonthly(<<allSubscriptions[j]>>)

\* C15 witness: of a cancelled yearly subscription of 120.00 and a cancelled
\* monthly one of 9.99 the yearly one is returned, not the active weekly one
\* of 13.00 a month
C15_Witness ==
    /\ Len(allSubscriptions) = 3
    /\ Cardinality(CancelledAt) = 2
    /\ {allSubscriptions[j].billing_cycle : j \in CancelledAt} = {"monthly", "yearly"}
    /\ \E j \in 1..3 :
          /\ allSubscriptions[j].is_active
          /\ IsSet(allSubscriptions[j].cancellation_date)
          /\ allSubscriptions[j].billing_cycle = "weekly"
    /\ Len(analytics.biggestSaving) = 1
    /\ analytics.biggestSaving[1].billing_cycle = "yearly"

\* with nothing cancelled in a non-empty collection biggestSaving is absent
NothingCancelledScenario ==
    (Len(allSubscriptions) > 0 /\ CancelledAt = {})
        => analytics.biggestSaving = <<>>

(* ------------------------ specification: history ----------------------- *)

NowHistory == {At(2025, 3, 31, 0), At(2025, 3, 31, TicksPerDay - 1)}

\* created_at before the six months, on the last instant of 31 October, and
\* around 28 February and 31 March
CreatedHistory ==
    { At(2024, 9, 30, 0), At(2024, 10, 31, TicksPerDay - 1), At(2024, 11, 30, 0),
      At(2025, 2, 28, 0), At(2025, 2, 28, TicksPerDay - 1), At(2025, 3, 1, 0),
      At(2025, 3, 31, TicksPerDay - 1) }

PoolHistory ==
    { [BaseSub EXCEPT !.created_at = c] : c \in CreatedHistory }
    \cup { [BaseSub EXCEPT !.created_at = c, !.billing_cycle = "yearly",
                           !.is_active = FALSE] :
             c \in {At(2025, 2, 28, TicksPerDay - 1), At(2025, 3, 1, 0)} }

InitHistory == HookInit /\ now \in NowHistory

\* created_at is the insertion time (DEFAULT now()), never later than the
\* clock reading of the fetch
NextHistory ==
    \E row \in PoolHistory, t \in NowHistory :
        /\ Len(allSubscriptions) < MaxSubs
        /\ getTime(row.created_at) <= getTime(t)
        /\ fetchSubscriptions(row, t)

SpecHistory == InitHistory /\ [][NextHistory]_vars

\* the month of entry i of 6: the month of now for the last one
MonthOfEntry(i) == now.ym - (6 - i)

\* the reference date of entry i in ticks: the day of the month and the
\* time of day of now in the month of the entry, the day not beyond the end
\* of that month
ReferenceTicks(i) ==
    (DaysBeforeMonth(MonthOfEntry(i))
        + Min(now.d, DaysInMonth(MonthOfEntry(i))) - 1) * TicksPerDay + now.t

CreatedUpTo(ticks) ==
    SelectSeq(allSubscriptions, LAMBDA s :
        DayNumber(s.created_at) * TicksPerDay + s.created_at.t <= ticks)

\* C16: for a non-empty collection historicalData has exactly 6 entries,
\* oldest to newest, one per calendar month ending at the month of now; the
\* cost of an entry is the sum of the monthly cost of all the subscriptions,
\* active or not, created at or before the reference date of its month, and
\* the costs never decrease from the oldest to the newest entry.
C16_HistoricalData ==
    Len(allSubscriptions) > 0 =>
        /\ Len(analytics.historicalData) = 6
        /\ \A i \in 1..6 :
              /\ analytics.historicalData[i].name = (MonthOfEntry(i) % 12) + 1
              /\ 12 * analytics.historicalData[i].cost
                     = TwelveTimesMonthly(CreatedUpTo(ReferenceTicks(i)))
        /\ \A i \in 1..5 :
              analytics.historicalData[i].cost <= analytics.historicalData[i + 1].cost

\* C16 witness: at the last instant of 31 March, with a subscription created
\* at the last instant of 31 October, an inactive yearly one created at the
\* last instant of 28 February and one created on 1 March, the entries are
\* October to March and the cost grows in October, February and March
C16_Witness ==
    /\ now = At(2025, 3, 31, TicksPerDay - 1)
    /\ Len(allSubscriptions) = 3
    /\ \E j \in 1..3 : ~allSubscriptions[j].is_active
    /\ [i \in 1..6 |-> analytics.historicalData[i].name] = <<10, 11, 12, 1, 2, 3>>
    /\ [i \in 1..6 |-> analytics.historicalData[i].cost]
         = << Cents(999), Cents(999), Cents(999), Cents(999),
              Cents(999) + (Cents(999) \div 12),
              Cents(999) + (Cents(999) \div 12) + Cents(999) >>

(* --------------------- specification: usage patterns ------------------- *)

NowPatterns == {At(2025, 3, 31, 0), At(2025, 3, 31, TicksPerDay - 1)}

PatternRow(cost, cycle, used, rating, created) ==
    [BaseSub EXCEPT !.cost = cost, !.billing_cycle = cycle, !.last_used_date = used,
                    !.value_rating = rating, !.created_at = created]

\* rows used on the day of now, 5, 20, 60 and 120 days before it, and never;
\* unrated and rated 1 to 5; created lately and long ago; one with a billing
\* cycle that is none of the three
PoolPatterns ==
    { PatternRow(Cents(15000), "monthly", Date(2025, 3, 31), 0, At(2024, 1, 10, 0)),
      PatternRow(Cents(999), "monthly", Date(2025, 3, 31), 5, At(2025, 3, 15, 0)),
      PatternRow(Cents(5), "monthly", Date(2025, 1, 30), 0, At(2024, 1, 10, 0)),
      PatternRow(Cents(999), "monthly", Date(2025, 3, 26), 3, At(2024, 1, 10, 0)),
      PatternRow(Cents(999), "monthly", Date(2025, 3, 26), 2, At(2024, 1, 10, 0)),
      PatternRow(Cents(999), "monthly", NoDate, 0, At(2024, 1, 10, 0)),
      PatternRow(Cents(999), "monthly", Date(2025, 3, 11), 1, At(2024, 1, 10, 0)),
      PatternRow(Cents(300), "weekly", Date(2025, 3, 26), 0, At(2024, 1, 10, 0)),
      PatternRow(Cents(12000), "yearly", Date(2024, 12, 1), 4, At(2024, 1, 10, 0)),
      PatternRow(Cents(999), "quarterly", Date(2025, 3, 26), 0, At(2024, 1, 10, 0)),
      [BaseSub EXCEPT !.is_active = FALSE] }

InitPatterns == HookInit /\ now \in NowPatterns

NextPatterns ==
    \E t \in NowPatterns :
        \/ \E row \in PoolPatterns :
               Len(allSubscriptions) < MaxSubs /\ fetchSubscriptions(row, t)
        \/ analyzeUsagePatterns(t)

SpecPatterns == InitPatterns /\ [][NextPatterns]_vars

UsageFrequencies == {"daily", "weekly", "monthly", "rarely", "never"}

ValueTrends == {"increasing", "stable", "decreasing"}

\* a cost per use in each band and on each edge of a band
CostPerUseSamples ==
    { JsNum(0), JsNum(Dollars(1) - 1), JsNum(Dollars(1)), JsNum(Dollars(5) - 1),
      JsNum(Dollars(5)), JsNum(Dollars(20)), JsNum(Dollars(20) + 1), JsInfinity }

\* the signed weights of the four factors
UsageWeight ==
    [daily |-> 40, weekly |-> 30, monthly |-> 15, rarely |-> 0 - 10, never |-> 0 - 30]

TrendWeight == [increasing |-> 15, stable |-> 0, decreasing |-> 0 - 15]

CostPerUseWeight(cpu) ==
    IF cpu.type = "Infinity" THEN 0 - 20
    ELSE IF cpu.n < Dollars(1) THEN 20
    ELSE IF cpu.n < Dollars(5) THEN 10
    ELSE IF cpu.n <= Dollars(20) THEN 0
    ELSE 0 - 20

WeightedScore(usage, rating, cpu, trend) ==
    UsageWeight[usage] + (IF rating = 0 THEN 0 ELSE 10 * (rating - 3))
        + CostPerUseWeight(cpu) + TrendWeight[trend]

ByThresholds(score) ==
    IF score >= 40 THEN "keep" ELSE IF score >= 10 THEN "review" ELSE "cancel"

\* generateRecommendation classifies every combination of its inputs by the
\* thresholds on the weighted score
EveryCombinationClassified ==
    \A usage \in UsageFrequencies, rating \in 0..5,
       cpu \in CostPerUseSamples, trend \in ValueTrends :
        generateRecommendation([BaseSub EXCEPT !.value_rating = rating],
                               usage, trend, cpu).recommendation
            = ByThresholds(WeightedScore(usage, rating, cpu, trend))

\* the weighted score of the pattern at position k of patterns
ScoreOfPattern(k) ==
    LET p == patterns[k]
    IN  WeightedScore(p.usage_frequency,
                      allSubscriptions[p.subscription_id].value_rating,
                      p.cost_per_use, p.value_trend)

\* C17: the score-based recommendation classifies every subscription by its
\* weighted score alone: keep for a score of 40 or more, review for a score
\* from 10 to 39, cancel for a score below 10, for every combination of usage
\* frequency, rating, cost-per-use band and value trend.
C17_ScoreThresholds ==
    /\ EveryCombinationClassified
    /\ \A k \in 1..Len(patterns) :
          patterns[k].recommendation = ByThresholds(ScoreOfPattern(k))

\* C17 witness: three subscriptions were analysed, with scores of exactly 40
\* (keep), exactly 10 (review) and below 10 (cancel)
C17_Witness ==
    /\ Len(patterns) = 3
    /\ \E k \in 1..3 : ScoreOfPattern(k) = 40 /\ patterns[k].recommendation = "keep"
    /\ \E k \in 1..3 : ScoreOfPattern(k) = 10 /\ patterns[k].recommendation = "review"
    /\ \E k \in 1..3 : ScoreOfPattern(k) < 10 /\ patterns[k].recommendation = "cancel"

(* ---------------------- specification: billing cycles ------------------ *)

Timeframes == {"week", "month", "annual", "quarter"}

\* the three billing cycles and one that is none of them, active, and one
\* cancelled row of each kind
PoolCycles ==
    { [BaseSub EXCEPT !.billing_cycle = b] : b \in Cycles \cup {"quarterly"} }
    \cup { [BaseSub EXCEPT !.billing_cycle = b, !.is_active = FALSE,
                           !.cancellation_date = At(2025, 2, 1, 0)] :
             b \in {"monthly", "quarterly"} }

InitCycles == HookInit /\ now \in NowCost

NextCycles ==
    \/ \E row \in PoolCycles, t \in NowCost :
           Len(allSubscriptions) < MaxSubs /\ fetchSubscriptions(row, t)
    \/ \E timeframe \in Timeframes : ReportsPage(timeframe)
    \/ \E selectedIds \in SUBSET { allSubscriptions[k].id : k \in 1..Len(allSubscriptions) } :
           selectSubscriptions(selectedIds)

SpecCycles == InitCycles /\ [][NextCycles]_vars

KnownCycle(subs) == SelectSeq(subs, LAMBDA s : s.billing_cycle \in Cycles)

\* on the dashboard a subscription with another billing cycle counts for 0:
\* in the analytics total, in the savings of MotivationalStats and in the
\* total of the bulk-action bar
UnknownCycleZeroOnDashboard ==
    /\ 12 * analytics.totalMonthlyCost
           = TwelveTimesMonthly(KnownCycle(activeSubsOf(allSubscriptions)))
    /\ 12 * motivationalStats.monthlySavings
           = TwelveTimesMonthly(KnownCycle(SelectSeq(allSubscriptions,
                                                    LAMBDA s : ~s.is_active)))
    /\ 12 * bulkActions.totalMonthlyCost
           = TwelveTimesMonthly(KnownCycle(SelectSeq(allSubscriptions,
                 LAMBDA s : s.id \in bulkActions.selectedIds)))

\* in the report a subscription with another billing cycle counts for 0
UnknownCycleZeroInReport ==
    /\ \A k \in 1..Len(report.reportData) :
          report.reportData[k].sub.billing_cycle \notin Cycles
              => report.reportData[k].calculatedCost = 0
    /\ report.totalCost
           = SumCalculatedCost(SelectSeq(report.reportData,
                 LAMBDA r : r.sub.billing_cycle \in Cycles))

\* C18: a subscription whose billing cycle is none of weekly, monthly and
\* yearly contributes 0 to every monthly-equivalent and yearly figure, in
\* every place that normalises cost: dashboard analytics, savings,
\* bulk-action total and reports.
C18_UnknownCycleContributesZero ==
    UnknownCycleZeroOnDashboard /\ UnknownCycleZeroInReport

\* what the report does with another billing cycle: the cost is taken as a
\* monthly cost
UnknownCycleMonthlyInReport ==
    \A k \in 1..Len(report.reportData) :
        LET r == report.reportData[k]
        IN  r.sub.billing_cycle \notin Cycles =>
                r.calculatedCost
                    = getCostForTimeframe([r.sub EXCEPT !.billing_cycle = "monthly"],
                                          report.timeframe)

\* what calculateCostPerUse does with another billing cycle: the cost is
\* taken as a monthly cost, so the cost per use is not 0
UnknownCycleMonthlyInCostPerUse ==
    \A k \in 1..Len(patterns) :
        LET sub == allSubscriptions[patterns[k].subscription_id]
        IN  (sub.billing_cycle \notin Cycles /\ IsSet(sub.last_used_date)) =>
                /\ patterns[k].cost_per_use.n > 0
                /\ \E t \in NowPatterns :
                      patterns[k].cost_per_use
                          = calculateCostPerUse([sub EXCEPT !.billing_cycle = "monthly"], t)

(* --------------------- specification: service writes ------------------- *)

NowService == {At(2025, 3, 12, 0), At(2025, 3, 12, TicksPerDay - 1)}

\* the authenticated user of a call; "none" when nobody is signed in
Callers == {"u1", "none"}

FormData(name, cost) ==
    [ name |-> name, cost |-> cost, billing_cycle |-> "monthly",
      next_renewal_date |-> Date(2025, 4, 15), category |-> <<"T", "V">> ]

\* inputs named Hi, " hI " and <N>; one carries is_active = false and the
\* user id of somebody else, one is_active = true, one a cost of 0
AddInputs ==
    { FormData(<<"H", "i">>, Cents(1599)),
      Spread(FormData(<<" ", "h", "I", " ">>, Cents(999)),
             [is_active |-> FALSE, user_id |-> "u2"]),
      Spread(FormData(<<"<", "N", ">">>, Cents(999)), [is_active |-> TRUE]),
      FormData(<<"H", "i">>, 0) }

\* ratings in and out of range
Ratings == {0, 2, 5, 6}

\* the lastUsedDate argument: absent (NoDate) or 15 February 2024
LastUsedArguments == {NoDate, Date(2024, 2, 15)}

InitService == HookInit /\ now = At(2025, 3, 12, 0)

NextService ==
    \E t \in NowService :
        \/ \E input \in AddInputs, user \in Callers :
               Len(table) < MaxRows /\ addSubscription(input, user, t)
        \/ \E input \in AddInputs, user \in Callers :
               Len(table) < MaxRows /\ useSubscriptionsAddSubscription(input, user, t)
        \/ \E id \in 1..Len(table), rating \in Ratings, lastUsedDate \in LastUsedArguments :
               updateSubscriptionRating(id, rating, lastUsedDate, t)

SpecService == InitService /\ [][NextService]_vars

\* the step stores one more row, active and owned by user
StoresActiveRowOf(user) ==
    /\ Len(table') = Len(table) + 1
    /\ table'[Len(table')].is_active
    /\ table'[Len(table')].user_id = user

\* C19: every successful add operation, of the service or of the hook
\* module, stores the new subscription with is_active = true and the caller's
\* user id, whatever is_active and user_id the caller's input carries.
C19_AddForcesActiveAndOwner ==
    [][ \A user \in Callers :
          (\E input \in AddInputs, t \in NowService :
               \/ addSubscription(input, user, t)
               \/ useSubscriptionsAddSubscription(input, user, t))
              => StoresActiveRowOf(user) ]_vars

\* the add of the service does so
ServiceAddForcesActiveAndOwner ==
    [][ \A user \in Callers :
          (\E input \in AddInputs, t \in NowService : addSubscription(input, user, t))
              => StoresActiveRowOf(user) ]_vars

\* the add of the hook module stores the caller's user id, and is_active as
\* the input carries it (true when the input carries none)
HookAddKeepsIsActive ==
    [][ \A user \in Callers, input \in AddInputs :
          (\E t \in NowService : useSubscriptionsAddSubscription(input, user, t))
              => /\ table'[Len(table')].user_id = user
                 /\ table'[Len(table')].is_active
                        = (IF Has(input, "is_active") THEN input.is_active ELSE TRUE) ]_vars

\* the table after a write of exactly these columns of row id
RowWritten(id, columns) == [table EXCEPT ![id] = Spread(@, columns)]

\* C20: updateSubscriptionRating without a last-used date writes only
\* value_rating and updated_at, the last_used_date and every other field of
\* the subscription staying as they were; with a last-used date it writes
\* exactly value_rating, last_used_date and updated_at.
C20_RatingWriteFrame ==
    [][ \A id \in 1..Len(table), rating \in Ratings, t \in NowService :
          /\ updateSubscriptionRating(id, rating, NoDate, t)
                => table' = RowWritten(id, [value_rating |-> rating, updated_at |-> t])
          /\ \A lastUsedDate \in LastUsedArguments \ {NoDate} :
                updateSubscriptionRating(id, rating, lastUsedDate, t)
                    => table' = RowWritten(id, [ value_rating |-> rating,
                                                 last_used_date |-> lastUsedDate,
                                                 updated_at |-> t ]) ]_vars

\* what the call without a last-used date writes: value_rating, updated_at
\* and the day of the call as last_used_date
RatingWithoutDateWritesToday ==
    [][ \A id \in 1..Len(table), rating \in Ratings, t \in NowService :
          updateSubscriptionRating(id, rating, NoDate, t)
              => table' = RowWritten(id, [ value_rating |-> rating,
                                           last_used_date |-> toDateColumn(t),
                                           updated_at |-> t ]) ]_vars

\* the call with a last-used date writes exactly the three columns
RatingWithDateFrame ==
    [][ \A id \in 1..Len(table), rating \in Ratings, t \in NowService :
          \A lastUsedDate \in LastUsedArguments \ {NoDate} :
              updateSubscriptionRating(id, rating, lastUsedDate, t)
                  => table' = RowWritten(id, [ value_rating |-> rating,
                                               last_used_date |-> lastUsedDate,
                                               updated_at |-> t ]) ]_vars

(* --------------------- the life of a stored subscription --------------- *)

\* the clock of the calls: the table is empty on the morning of 12 March
\* 2025, the operations run that morning or the next
NowLifecycle == {At(2025, 3, 12, 0), At(2025, 3, 13, 0)}

\* the forms added: Hi and yN, and Hi with a cost of 0
LifecycleInputs ==
    { FormData(<<"H", "i">>, Cents(999)),
      FormData(<<"y", "N">>, Cents(999)),
      FormData(<<"H", "i">>, 0) }

\* the cost an update carries: 5.00, 0 and -0.01
UpdatedCosts == {Cents(500), 0, Cents(0 - 1)}

BulkActionTypes == {"favorite", "pause", "resume", "cancel"}

\* a card offers the renewal once: the renewal date is still the form's
RenewableOnce(row) == row.next_renewal_date = Date(2025, 4, 15)

InitLifecycle == HookInit /\ now = At(2025, 3, 12, 0)

NextLifecycle ==
    \E t \in NowLifecycle :
        \/ \E input \in LifecycleInputs :
               Len(table) < MaxRows /\ addSubscription(input, "u1", t)
        \/ \E id \in 1..Len(table), cost \in UpdatedCosts :
               updateSubscription(id, [cost |-> cost], t)
        \/ \E ids \in SUBSET (1..Len(table)), cost \in UpdatedCosts :
               bulkUpdateSubscriptions(ids, [cost |-> cost], t)
        \/ \E ids \in SUBSET (1..Len(table)), action \in BulkActionTypes :
               executeAction(action, ids, t)
        \/ \E id \in 1..Len(table) :
               updateSubscriptionRating(id, 5, Date(2024, 2, 15), t)
        \/ \E id \in 1..Len(table) :
               RenewableOnce(table[id]) /\ renewSubscription(table[id], t)
        \/ \E id \in 1..Len(table) : handleToggleActive(id, t)
        \/ \E id \in 1..Len(table) : handleDelete(id, t)

SpecLifecycle == InitLifecycle /\ [][NextLifecycle]_vars

\* C21: in every state reachable by add, update, bulk update, rate, renew,
\* pause, resume and cancel, every stored subscription has cost > 0 (an
\* operation that would store a cost of 0 or less is rejected)
C21_StoredCostPositive ==
    \A k \in 1..Len(table) : table[k].cost > 0

\* what the table's CHECK does keep: no stored cost is negative
StoredCostNeverNegative ==
    \A k \in 1..Len(table) : table[k].cost >= 0

\* the add of the service stores no cost of 0 or less
AddStoresPositiveCost ==
    [][ \A input \in LifecycleInputs, t \in NowLifecycle :
            addSubscription(input, "u1", t) => table'[Len(table')].cost > 0 ]_vars

\* an update carrying the cost 0 is accepted and stored
UpdateStoresZeroCost ==
    \E k \in 1..Len(table) : table[k].cost = 0

\* C22: over pause, resume and cancel operations, cancellation_date is
\* written at most once: once set, no later operation sets it to a
\* different value
C22_CancellationDateWrittenOnce ==
    [][ \A k \in 1..Len(table) :
            IsSet(table[k].cancellation_date)
                => table'[k].cancellation_date = table[k].cancellation_date ]_vars

\* pause and resume leave cancellation_date as it is
PauseAndResumeKeepCancellationDate ==
    [][ \A id \in 1..Len(table), t \in NowLifecycle :
            ( \/ handleToggleActive(id, t)
              \/ executeAction("pause", {id}, t)
              \/ executeAction("resume", {id}, t) )
                => table'[id].cancellation_date = table[id].cancellation_date ]_vars

\* every cancel stamps the row with the time of the call, also a row that
\* carries a cancellation_date
CancelStampsTimeOfCall ==
    [][ \A id \in 1..Len(table), t \in NowLifecycle :
            (handleDelete(id, t) \/ executeAction("cancel", {id}, t))
                => table'[id].cancellation_date = t ]_vars

\* the step pauses the row id: the card's toggle on an active row, or the
\* bulk action pause on a selection that holds it
Pauses(id) ==
    \E t \in NowLifecycle :
        \/ table[id].is_active /\ handleToggleActive(id, t)
        \/ \E ids \in SUBSET (1..Len(table)) :
               id \in ids /\ executeAction("pause", ids, t)

\* C27: cancellation_date is non-null only if the most recent status change
\* was a cancel: an active subscription, and one deactivated by pause, has
\* cancellation_date = null
C27_CancellationDateOnlyAfterCancel ==
    [][ \A id \in 1..Len(table) :
            (table'[id].is_active \/ Pauses(id))
                => ~IsSet(table'[id].cancellation_date) ]_vars

\* a subscription that was never cancelled has no cancellation_date, active
\* or paused
NeverCancelledHasNoCancellationDate ==
    [][ \A id \in 1..Len(table) :
            (~IsSet(table[id].cancellation_date) /\ IsSet(table'[id].cancellation_date))
                => \E t \in NowLifecycle :
                       \/ handleDelete(id, t)
                       \/ \E ids \in SUBSET (1..Len(table)) :
                              id \in ids /\ executeAction("cancel", ids, t) ]_vars

\* a resumed subscription keeps the cancellation_date of its cancel
ResumedKeepsCancellationDate ==
    \E k \in 1..Len(table) :
        table[k].is_active /\ IsSet(table[k].cancellation_date)

\* a row that carries a cancellation_date and is then paused is what
\* biggestSaving selects: deactivated, with a cancellation_date
PausedCountsAsCancelled ==
    [][ \A id \in 1..Len(table) :
            (IsSet(table[id].cancellation_date) /\ Pauses(id))
                => biggestSavingOf(<<table'[id]>>) = <<table'[id]>> ]_vars

(* ------------------------------ renewals ------------------------------- *)

RenewForm(name, cycle, date) ==
    [ FormData(name, Cents(999)) EXCEPT !.billing_cycle = cycle,
                                        !.next_renewal_date = date ]

\* a weekly subscription due on 28 March, a monthly one due on 31 January
\* and a yearly one due on 29 February 2024
RenewInputs ==
    { RenewForm(<<"H", "i">>, "weekly", Date(2025, 3, 28)),
      RenewForm(<<"y", "N">>, "monthly", Date(2025, 1, 31)),
      RenewForm(<<"N", "o">>, "yearly", Date(2024, 2, 29)) }

\* the cards renew a subscription until it is due after June 2025
RenewalHorizon == YM(2025, 7)

\* the subscription object handed to renewSubscription: the row, or an
\* object whose billing cycle is none of the three
RenewArguments(id) ==
    { table[id], [table[id] EXCEPT !.billing_cycle = "quarterly"] }

InitRenew == HookInit /\ now = At(2025, 3, 12, 0)

NextRenew ==
    \E t \in NowLifecycle :
        \/ \E input \in RenewInputs :
               Len(table) < MaxRows /\ addSubscription(input, "u1", t)
        \/ \E id \in 1..Len(table) : \E subscription \in RenewArguments(id) :
               /\ table[id].next_renewal_date.ym < RenewalHorizon
               /\ renewSubscription(subscription, t)

SpecRenew == InitRenew /\ [][NextRenew]_vars

\* one billing period after a date: 7 days, the same day of the next month
\* or of the next year (the last day of that month when it is shorter)
OnePeriodLater(date, cycle, later) ==
    CASE cycle = "weekly"  -> DayNumber(later) = DayNumber(date) + 7
      [] cycle = "monthly" -> /\ later.ym = date.ym + 1
                              /\ later.d = Min(date.d, DaysInMonth(later.ym))
      [] cycle = "yearly"  -> /\ later.ym = date.ym + 12
                              /\ later.d = Min(date.d, DaysInMonth(later.ym))

\* the row after the step differs from the row before in next_renewal_date
\* and updated_at at most
RenewalFrame(id) ==
    \A column \in DOMAIN table[id] \ {"next_renewal_date", "updated_at"} :
        table'[id][column] = table[id][column]

\* C28: renewSubscription moves next_renewal_date forward by exactly one
\* billing period (1 week, 1 month, 1 year) and changes no field other than
\* next_renewal_date and updated_at; for any other billing cycle it fails
\* and writes nothing
C28_RenewAdvancesOnePeriod ==
    [][ \A id \in 1..Len(table), t \in NowLifecycle :
          \A subscription \in RenewArguments(id) :
            /\ renewSubscription(subscription, t)
                 => /\ OnePeriodLater(table[id].next_renewal_date,
                                      table[id].billing_cycle,
                                      table'[id].next_renewal_date)
                    /\ RenewalFrame(id)
            /\ subscription.billing_cycle \notin {"weekly", "monthly", "yearly"}
                 => ~renewSubscription(subscription, t) ]_vars

\* what the code does for a weekly subscription: 49 days
WeeklyRenewalAddsSevenWeeks ==
    [][ \A id \in 1..Len(table), t \in NowLifecycle :
            (table[id].billing_cycle = "weekly" /\ renewSubscription(table[id], t))
                => DayNumber(table'[id].next_renewal_date)
                       = DayNumber(table[id].next_renewal_date) + 49 ]_vars

\* the rest of the claim holds: one month, one year, the frame, and no
\* write for another cycle
RenewMonthlyYearlyAndFrame ==
    [][ \A id \in 1..Len(table), t \in NowLifecycle :
          \A subscription \in RenewArguments(id) :
            /\ renewSubscription(subscription, t)
                 => /\ table[id].billing_cycle # "weekly"
                         => OnePeriodLater(table[id].next_renewal_date,
                                           table[id].billing_cycle,
                                           table'[id].next_renewal_date)
                    /\ RenewalFrame(id)
            /\ subscription.billing_cycle \notin {"weekly", "monthly", "yearly"}
                 => ~renewSubscription(subscription, t) ]_vars

\* the weekly subscription due on 28 March is due on 16 May after one renewal
WeeklyRenewedScenario ==
    \E k \in 1..Len(table) :
        /\ table[k].billing_cycle = "weekly"
        /\ table[k].next_renewal_date = Date(2025, 5, 16)

\* the monthly subscription due on 31 January is due on 28 February
MonthlyRenewedScenario ==
    \E k \in 1..Len(table) :
        /\ table[k].billing_cycle = "monthly"
        /\ table[k].next_renewal_date = Date(2025, 2, 28)

(* ----------------- the confidence of a cancel recommendation ----------- *)

\* the scores every combination of the four factors can give
ReachableScores ==
    { WeightedScore(usage, rating, cpu, trend) :
          usage \in UsageFrequencies, rating \in 0..5,
          cpu \in CostPerUseSamples, trend \in ValueTrends }

\* rows used 60 days before now for 0.30 and for 1.00 a month, a row rated
\* 2 and used 5 days before now for 40.00 a month, a row never used, and a
\* row rated 5 and used on the day of now
PoolConfidence ==
    { PatternRow(Cents(30), "monthly", Date(2025, 1, 30), 0, At(2024, 1, 10, 0)),
      PatternRow(Cents(100), "monthly", Date(2025, 1, 30), 0, At(2024, 1, 10, 0)),
      PatternRow(Cents(4000), "monthly", Date(2025, 3, 26), 2, At(2024, 1, 10, 0)),
      PatternRow(Cents(999), "monthly", NoDate, 0, At(2024, 1, 10, 0)),
      PatternRow(Cents(999), "monthly", Date(2025, 3, 31), 5, At(2025, 3, 15, 0)) }

InitConfidence == HookInit /\ now \in NowPatterns

NextConfidence ==
    \E t \in NowPatterns :
        \/ \E row \in PoolConfidence :
               Len(allSubscriptions) < MaxSubs /\ fetchSubscriptions(row, t)
        \/ analyzeUsagePatterns(t)

SpecConfidence == InitConfidence /\ [][NextConfidence]_vars

\* the patterns classified cancel
CancelPatterns == { k \in 1..Len(patterns) : patterns[k].recommendation = "cancel" }

\* C29: for subscriptions classified cancel (score < 10), a lower score
\* never yields a lower confidence than a higher score, and the confidence
\* stays within 0 and 0.9
C29_CancelConfidenceMonotone ==
    /\ \A k \in CancelPatterns, j \in CancelPatterns :
          ScoreOfPattern(k) < ScoreOfPattern(j)
              => patterns[k].confidence >= patterns[j].confidence
    /\ \A k \in CancelPatterns :
          /\ patterns[k].confidence >= 0
          /\ patterns[k].confidence <= (9 * ConfidenceUnits) \div 10

\* the confidence of a cancel is within 0 and 0.9 for every reachable score
CancelConfidenceInRange ==
    /\ \A score \in { s \in ReachableScores : s < 10 } :
          /\ classify(score).confidence >= 0
          /\ classify(score).confidence <= (9 * ConfidenceUnits) \div 10
    /\ \A k \in CancelPatterns :
          /\ patterns[k].confidence >= 0
          /\ patterns[k].confidence <= (9 * ConfidenceUnits) \div 10

\* the confidence follows the magnitude of the score: among scores of 0 or
\* less a lower score never has a lower confidence, among scores from 0 to 9
\* a lower score never has a higher one
CancelConfidenceFollowsMagnitude ==
    /\ \A a \in ReachableScores, b \in ReachableScores :
          /\ (a < b /\ b <= 0) => classify(a).confidence >= classify(b).confidence
          /\ (0 <= a /\ a < b /\ b < 10)
                => classify(a).confidence <= classify(b).confidence
    /\ \A k \in CancelPatterns :
          patterns[k].confidence
              = Min((9 * ConfidenceUnits) \div 10,
                    (Abs(ScoreOfPattern(k)) * ConfidenceUnits) \div 30)

\* two analysed subscriptions are classified cancel with scores of 0 and 5:
\* the confidences are 0 and 5/30
CancelAtZeroAndFiveScenario ==
    \E k \in CancelPatterns, j \in CancelPatterns :
        /\ ScoreOfPattern(k) = 0 /\ patterns[k].confidence = 0
        /\ ScoreOfPattern(j) = 5 /\ patterns[j].confidence = (5 * ConfidenceUnits) \div 30

(* ------------------------- adds that overlap ---------------------------- *)

\* the forms one user submits: Hi, " hI ", "< Hi>" and yN
OverlappingInputs ==
    { FormData(<<"H", "i">>, Cents(999)),
      FormData(<<" ", "h", "I", " ">>, Cents(999)),
      FormData(<<"<", " ", "H", "i", ">">>, Cents(999)),
      FormData(<<"y", "N">>, Cents(999)) }

InitAdds == HookInit /\ now = At(2025, 3, 12, 0)

NextAdds ==
    \/ \E call \in 1..MaxCalls, input \in OverlappingInputs, queryError \in BOOLEAN :
           /\ Len(table) + Cardinality(calls) < MaxRows
           /\ addSubscriptionCheck(call, input, "u1", queryError)
    \/ \E call \in 1..MaxCalls, t \in NowLifecycle : addSubscriptionInsert(call, t)

SpecAdds == InitAdds /\ [][NextAdds]_vars

\* two active rows of one user whose stored (sanitized) names are equal
\* ignoring case
SameActiveName(k, j) ==
    /\ k # j
    /\ table[k].user_id = table[j].user_id
    /\ table[k].is_active /\ table[j].is_active
    /\ toLowerCase(table[k].name) = toLowerCase(table[j].name)

\* C30: after any sequence of addSubscription calls by one user, concurrent
\* ones included, the user never has two active subscriptions whose
\* sanitized names are equal ignoring case
C30_NoTwoActiveEqualNames ==
    \A k \in 1..Len(table), j \in 1..Len(table) : ~SameActiveName(k, j)

\* a call whose duplicate query is answered goes on to its insert only if
\* no active row of the user is named as the trimmed sanitized name,
\* ignoring case
AnsweredCheckRejectsStoredName ==
    [][ \A call \in 1..MaxCalls, input \in OverlappingInputs :
            addSubscriptionCheck(call, input, "u1", FALSE)
                => \A k \in 1..Len(table) :
                       ~( /\ table[k].is_active
                          /\ table[k].user_id = "u1"
                          /\ toLowerCase(table[k].name)
                                 = toLowerCase(trim(sanitizeInput(input.name))) ) ]_vars

\* both rows are named Hi: the two calls were in flight together, or the
\* duplicate query of the second failed
TwoActiveHiScenario ==
    /\ Len(table) = 2
    /\ table[1].name = <<"H", "i">>
    /\ toLowerCase(table[2].name) = <<"h", "i">>

\* both rows are named " Hi": the form "< Hi>" added twice
TwoActiveSpaceHiScenario ==
    /\ Len(table) = 2
    /\ table[1].name = <<" ", "H", "i">>
    /\ table[2].name = <<" ", "H", "i">>

(* ------------------------- scheduler runs ------------------------------- *)

\* the cron job and its retries call the function on 12 March and on
\* 17 March 2025
NowScheduler ==
    { At(2025, 3, 12, 0), At(2025, 3, 12, TicksPerDay - 1),
      At(2025, 3, 17, 0), At(2025, 3, 17, TicksPerDay - 1) }

\* the table holds two active subscriptions of u1, renewing on 17 March and
\* on 12 March
TableScheduler ==
    << insertedRow(Spread(RenewForm(<<"H", "i">>, "monthly", Date(2025, 3, 17)),
                          [user_id |-> "u1"]), 1, At(2025, 3, 1, 0)),
       insertedRow(Spread(RenewForm(<<"y", "N">>, "yearly", Date(2025, 3, 12)),
                          [user_id |-> "u1"]), 2, At(2025, 3, 1, 0)) >>

InitScheduler ==
    /\ allSubscriptions = <<>>
    /\ now = At(2025, 3, 12, 0)
    /\ analytics = initialAnalytics
    /\ motivationalStats = [monthlySavings |-> 0, mindfulStreak |-> 0]
    /\ patterns = <<>>
    /\ report = reportOf(<<>>, "month")
    /\ bulkActions = bulkActionsOf(<<>>, {})
    /\ table = TableScheduler
    /\ calls = {}
    /\ onLine = TRUE
    /\ offlineActions = <<>>
    /\ syncs = <<>>
    /\ executions = <<>>
    /\ notification_logs = <<>>
    /\ runs = <<>>

NextScheduler ==
    \E t \in NowScheduler :
        \/ Len(runs) < MaxRuns /\ schedulerStart(t)
        \/ \E r \in 1..Len(runs), queryError \in BOOLEAN :
               schedulerCheck(r, t, queryError)
        \/ \E r \in 1..Len(runs), logError \in BOOLEAN :
               schedulerInsert(r, t, logError)

SpecScheduler == InitScheduler /\ [][NextScheduler]_vars

\* two renewal reminders of one subscription sent less than 7 days apart
WithinSevenDays(a, b) ==
    /\ a # b
    /\ notification_logs[a].notification_type = "renewal_reminder"
    /\ notification_logs[b].notification_type = "renewal_reminder"
    /\ notification_logs[a].subscription_id = notification_logs[b].subscription_id
    /\ Abs(getTime(notification_logs[a].sent_at) - getTime(notification_logs[b].sent_at))
           < 7 * TicksPerDay

\* C23: across any number of scheduler runs, overlapping ones included, no
\* subscription gets a second renewal_reminder log entry within 7 days of
\* an earlier one
C23_NoSecondReminderWithinSevenDays ==
    \A a \in 1..Len(notification_logs), b \in 1..Len(notification_logs) :
        ~WithinSevenDays(a, b)

\* a run whose query is answered skips a subscription that has a reminder
\* of the last 7 days in the table at that moment
AnsweredCheckSkipsReminded ==
    [][ \A r \in 1..Len(runs), t \in NowScheduler :
            ( /\ schedulerCheck(r, t, FALSE)
              /\ Len(existingNotificationsOf(runs[r].subscriptions[runs[r].i].id, t)) > 0 )
                => runs'[r].pc # "insert" ]_vars

\* the subscription renewing on 17 March has two reminders of 12 March
TwoRemindersSameDayScenario ==
    \E a \in 1..Len(notification_logs), b \in 1..Len(notification_logs) :
        /\ WithinSevenDays(a, b)
        /\ notification_logs[a].subscription_id = 1
        /\ notification_logs[a].sent_at.d = 12
        /\ notification_logs[b].sent_at.d = 12

(* --------------------------- offline sync -------------------------------- *)

\* what the application stores directly: a delete whose data is null
DirectActions ==
    { [ type |-> "delete", table |-> "subscriptions", data |-> NullData ] }

InitOffline == HookInit /\ now = At(2025, 3, 12, 0)

NextOffline ==
    \/ \E action \in DirectActions :
           Len(executions) < MaxActions /\ storeOfflineAction(action)
    \/ /\ Len(executions) < MaxActions /\ Len(table) < MaxRows
       /\ offlineAwareSubscriptionCreate(Spread(FormData(<<"H", "i">>, Cents(999)),
                                                [user_id |-> "u1"]))
    \/ /\ Len(executions) < MaxActions
       /\ offlineAwareSubscriptionUpdate(1, [cost |-> Cents(500)])
    \/ Len(executions) < MaxActions /\ offlineAwareSubscriptionDelete(1)
    \/ Len(syncs) < MaxPasses /\ onlineEvent
    \/ offlineEvent
    \/ Len(syncs) < MaxPasses /\ visibilitychangeEvent
    \/ Len(syncs) < MaxPasses /\ initializeOfflineSupport
    \/ \E p \in 1..Len(syncs), backendOk \in BOOLEAN : syncAwait(p, backendOk)

SpecOffline == InitOffline /\ [][NextOffline]_vars

\* pass p ends in this step
Ends(p) == syncs[p].pc = "await" /\ syncs'[p].pc = "done"

\* a pass starts and ends in this step
StartsAndEnds ==
    Len(syncs') = Len(syncs) + 1 /\ syncs'[Len(syncs')].pc = "done"

\* the actions of a pass that the backend did not execute: those that
\* threw and those answered with an error, in the order of the pass
NotExecuted(pass) ==
    SelectSeq(pass.actions, LAMBDA action :
        \/ \E k \in 1..Len(pass.failedActions) : pass.failedActions[k] = action
        \/ \E k \in 1..Len(pass.rejected) : pass.rejected[k] = action)

\* C24: after a syncOfflineActions pass that runs while online, the queue
\* holds exactly the actions whose execution against the backend failed and
\* none of those that succeeded; it is empty when every action succeeded
C24_QueueHoldsFailedActions ==
    [][ /\ \A p \in 1..Len(syncs) :
              Ends(p) => offlineActions' = NotExecuted(syncs'[p])
        /\ StartsAndEnds => offlineActions' = NotExecuted(syncs'[Len(syncs')]) ]_vars

\* what a pass leaves in the queue: the actions that threw before any
\* request, and none of those the backend answered, with an error or without
QueueHoldsThrownActions ==
    [][ /\ \A p \in 1..Len(syncs) :
              Ends(p) => offlineActions' = syncs'[p].failedActions
        /\ StartsAndEnds => offlineActions' = syncs'[Len(syncs')].failedActions ]_vars

\* a pass whose every request was answered without an error and in which
\* nothing threw leaves the queue empty
AllSucceededEmptiesQueue ==
    [][ \A p \in 1..Len(syncs) :
            (Ends(p) /\ NotExecuted(syncs'[p]) = <<>>) => offlineActions' = <<>> ]_vars

\* an action the backend answered with an error is in no queue and no pass
\* will send it again
RejectedActionDroppedScenario ==
    /\ Len(executions) = 1
    /\ executions[1] = <<"error">>
    /\ offlineActions = <<>>
    /\ \A p \in 1..Len(syncs) : syncs[p].pc = "done"

\* the stored list holds the action with this id
InQueue(id) == \E k \in 1..Len(offlineActions) : offlineActions[k].id = id

\* C25: no offline action is ever lost: a stored action stays in the queue
\* until a sync has executed it, also when it is stored while a pass is in
\* progress
C25_NoOfflineActionLost ==
    \A id \in 1..Len(executions) : InQueue(id) \/ executions[id] # <<>>

\* an action whose execute throws before any request stays in the queue
\* through every pass that read it
ThrownActionStaysInQueue ==
    [][ \A p \in 1..Len(syncs) :
            Ends(p) => \A k \in 1..Len(syncs[p].actions) :
                           throwsBeforeRequest(syncs[p].actions[k])
                               => \E j \in 1..Len(offlineActions') :
                                      offlineActions'[j] = syncs[p].actions[k] ]_vars

\* the second action, stored while a pass was waiting for its request, is
\* gone from the queue and was never sent
StoredDuringPassLostScenario ==
    /\ Len(executions) = 2
    /\ executions[1] # <<>>
    /\ executions[2] = <<>>
    /\ ~InQueue(2)
    /\ \A p \in 1..Len(syncs) : syncs[p].pc = "done"

\* C26: each queued offline action is executed against the backend at most
\* once when it succeeds, also when passes started by several triggers
\* overlap: nothing is sent again after the backend executed it
C26_ExecutedAtMostOnce ==
    \A id \in 1..Len(executions) :
        \A k \in 1..(Len(executions[id]) - 1) : executions[id][k] # "ok"

\* a pass sends each of its actions once: no action has more answers than
\* passes were started
OneRequestPerPass ==
    \A id \in 1..Len(executions) : Len(executions[id]) <= Len(syncs)

\* the backend executed the first action twice
ExecutedTwiceScenario ==
    /\ Len(executions) >= 1
    /\ Len(executions[1]) >= 2
    /\ executions[1][1] = "ok"
    /\ executions[1][2] = "ok"

====
